---- MODULE Spec2Model ----
(***************************************************************************)
(* A model of screenshots-housekeeping: the resilient analysis client      *)
(* (vision_analyzer.py) and the filename catalog (file_manager.py).        *)
(*                                                                         *)
(* Text is modelled as TLA+ strings, character by character: the string    *)
(* operations of the Python source (strip, lower, split, join, replace,    *)
(* startswith, `in`) are operators over the characters of a string, built  *)
(* from Len, SubSeq, Head, Tail and \o.                                    *)
(***************************************************************************)
EXTENDS Integers, Sequences, FiniteSets, TLC

(***************************************************************************)
(* Bounds of the model.                                                    *)
(***************************************************************************)
\* the largest configured max_retries that is explored (config.py default: 3)
MaxRetries == 2
\* the longest word list of a generated response text
MaxWords == 7
\* the most files the desktop directory holds at the start
MaxFiles == 3
\* the largest sequence number written in a generated file name
MaxNumber == 11
\* the most pieces a generated description is written from
MaxPieces == 4

\* the most scan-group-rename passes made over one directory
MaxPasses == 2

(***************************************************************************)
(* Python string operations.                                               *)
(***************************************************************************)
UpperAlpha == "ABCDEFGHIJKLMNOPQRSTUVWXYZ"
LowerAlpha == "abcdefghijklmnopqrstuvwxyz"
Digits == "0123456789"

Char(s, i) == SubSeq(s, i, i)

\* c in chars, for a one-character string c
CharIn(c, chars) == \E i \in 1..Len(chars) : Char(chars, i) = c

IndexIn(c, chars) == CHOOSE i \in 1..Len(chars) : Char(chars, i) = c

UpperSet == {Char(UpperAlpha, i) : i \in 1..Len(UpperAlpha)}
LowerSet == {Char(LowerAlpha, i) : i \in 1..Len(LowerAlpha)}

\* str.lower() and str.upper() on one character (ASCII letters)
LowerChar(c) == IF c \in UpperSet THEN Char(LowerAlpha, IndexIn(c, UpperAlpha)) ELSE c

UpperChar(c) == IF c \in LowerSet THEN Char(UpperAlpha, IndexIn(c, LowerAlpha)) ELSE c

\* character by character; the text is taken by halves, which keeps the
\* evaluation shallow on long texts
RECURSIVE Lower(_)
Lower(s) ==
  IF Len(s) <= 1 THEN LowerChar(s)
  ELSE Lower(SubSeq(s, 1, Len(s) \div 2)) \o Lower(SubSeq(s, Len(s) \div 2 + 1, Len(s)))

RECURSIVE Upper(_)
Upper(s) ==
  IF Len(s) <= 1 THEN UpperChar(s)
  ELSE Upper(SubSeq(s, 1, Len(s) \div 2)) \o Upper(SubSeq(s, Len(s) \div 2 + 1, Len(s)))

\* the characters str.strip(), str.split() and the regex \s treat as whitespace
Whitespace == " \t\n"
WhitespaceSet == {Char(Whitespace, i) : i \in 1..Len(Whitespace)}

IsSpace(c) == c \in WhitespaceSet

\* str.isspace(): non-empty and every character is whitespace
IsSpaceStr(s) == s # "" /\ \A i \in 1..Len(s) : IsSpace(Char(s, i))

RECURSIVE LStrip(_, _)
LStrip(s, chars) ==
  IF s # "" /\ CharIn(Head(s), chars) THEN LStrip(Tail(s), chars) ELSE s

RECURSIVE RStrip(_, _)
RStrip(s, chars) ==
  IF s # "" /\ CharIn(Char(s, Len(s)), chars)
  THEN RStrip(SubSeq(s, 1, Len(s) - 1), chars) ELSE s

\* str.strip(chars); str.strip() is Strip(s, Whitespace)
Strip(s, chars) == RStrip(LStrip(s, chars), chars)

\* s.startswith(p)
StartsWith(s, p) == Len(p) <= Len(s) /\ SubSeq(s, 1, Len(p)) = p

\* p in s
Contains(s, p) ==
  \E i \in 1..(Len(s) - Len(p) + 1) : SubSeq(s, i, i + Len(p) - 1) = p

\* s[n:]
DropFirst(s, n) == IF n >= Len(s) THEN "" ELSE SubSeq(s, n + 1, Len(s))

\* s[:n]
TakeFirst(s, n) == IF n >= Len(s) THEN s ELSE SubSeq(s, 1, n)

\* the first whitespace-delimited word of s, s not starting with whitespace
FirstWord(s) ==
  LET spaces == {i \in 1..Len(s) : IsSpace(Char(s, i))}
  IN IF spaces = {} THEN s
     ELSE TakeFirst(s, (CHOOSE i \in spaces : \A j \in spaces : i <= j) - 1)

\* str.split(): the sequence of maximal runs of non-whitespace characters
RECURSIVE Split(_)
Split(s) ==
  LET t == LStrip(s, Whitespace)
  IN IF t = "" THEN <<>>
     ELSE LET w == FirstWord(t) IN <<w>> \o Split(DropFirst(t, Len(w)))

\* sep.join(words)
RECURSIVE Join(_, _)
Join(sep, words) ==
  IF words = <<>> THEN ""
  ELSE IF Len(words) = 1 THEN words[1]
  ELSE words[1] \o sep \o Join(sep, Tail(words))

\* str(n) for an integer n >= 0
RECURSIVE IntToStr(_)
IntToStr(n) ==
  IF n < 10 THEN Char(Digits, n + 1)
  ELSE IntToStr(n \div 10) \o Char(Digits, (n % 10) + 1)

\* Optional[...]: None, or a value
None == [some |-> FALSE, val |-> ""]
Some(x) == [some |-> TRUE, val |-> x]

(***************************************************************************)
(* JSON values, as response.json() returns them: [t |-> type, v |-> value]. *)
(* A dict is a function from its keys, a list a sequence.                  *)
(***************************************************************************)
JNull == [t |-> "null", v |-> 0]
JStr(s) == [t |-> "str", v |-> s]
JInt(n) == [t |-> "int", v |-> n]
JList(xs) == [t |-> "list", v |-> xs]
JDict(f) == [t |-> "dict", v |-> f]

\* Python truthiness: bool(j)
Truthy(j) ==
  CASE j.t = "null" -> FALSE
    [] j.t = "dict" -> DOMAIN j.v # {}
    [] j.t = "list" -> j.v # <<>>
    [] j.t = "str" -> j.v # ""
    [] j.t = "int" -> j.v # 0

\* isinstance(j, dict) and key in j
IsDict(j) == j.t = "dict"
HasKey(j, k) == k \in DOMAIN j.v

\* str(content) for the non-string contents the model generates (integers)
PyStr(j) == IF j.t = "int" THEN IntToStr(j.v) ELSE j.v

(***************************************************************************)
(* VisionAnalyzer._parse_description.                                      *)
(***************************************************************************)
Fallback == "Screenshot content"

refusal_patterns ==
  << "i'm sorry, i can't help",
     "i can't help with that",
     "i'm not able to help",
     "i cannot help",
     "i'm sorry, but i can't",
     "i can't assist with",
     "i'm unable to help",
     "i cannot assist",
     "i'm sorry, i cannot",
     "i can't provide",
     "i'm not able to provide",
     "i cannot provide",
     "i can't analyze",
     "i cannot analyze",
     "i'm not able to analyze",
     "i'm sorry, i can't analyze" >>

prefixes_to_remove ==
  << "This screenshot shows",
     "The screenshot shows",
     "This image shows",
     "The image shows",
     "Screenshot of",
     "Image of" >>

\* `pattern in description_lower` (the mutant compares for equality)
MatchesPatternExact(description_lower, pattern) == description_lower = pattern

MatchesPattern(description_lower, pattern) == Contains(description_lower, pattern)

\* description.lower()
DescriptionLower(description) == Lower(description)

\* the loop over refusal_patterns returns None on the first pattern found
IsRefusal(description) ==
  LET description_lower == DescriptionLower(description)
  IN \E i \in 1..Len(refusal_patterns) :
        MatchesPattern(description_lower, refusal_patterns[i])

\* the loop over prefixes_to_remove, from the i-th prefix on
RECURSIVE RemovePrefixes(_, _)
RemovePrefixes(description, i) ==
  IF i > Len(prefixes_to_remove) THEN description
  ELSE LET prefix == prefixes_to_remove[i]
           d == IF StartsWith(Lower(description), Lower(prefix))
                THEN Strip(DropFirst(description, Len(prefix)), Whitespace)
                ELSE description
       IN RemovePrefixes(d, i + 1)

\* `if len(words) > 6`, and `words[:5]`
WordLimit == 6
WordsKept == 5

\* "Ensure it's not too long"
TruncateWords(description) ==
  LET words == Split(description)
  IN IF Len(words) > WordLimit
     THEN Join(" ", SubSeq(words, 1, WordsKept))
     ELSE description

\* from "Clean up the description" on: the content is a string
ParseContent(content) ==
  LET description == Strip(Strip(Strip(content, Whitespace), "\""), "'")
  IN IF description = "" \/ IsSpaceStr(description) THEN Some(Fallback)
     ELSE IF IsRefusal(description) THEN None
     ELSE LET d == TruncateWords(RemovePrefixes(description, 1))
          IN IF Len(Strip(d, Whitespace)) < 2 THEN Some(Fallback) ELSE Some(d)

\* The structure checks. A value of another type than the code expects ends
\* in one of its except clauses (KeyError, IndexError, TypeError), or fails
\* the membership test: the fallback description either way.
\* Returns None for a refusal and Some(description) otherwise.
_parse_description(response) ==
  IF ~IsDict(response) THEN Some(Fallback)
  ELSE IF ~HasKey(response, "choices") THEN Some(Fallback)
  ELSE LET choices == response.v["choices"] IN
  IF ~Truthy(choices) THEN Some(Fallback)
  ELSE IF choices.t # "list" THEN Some(Fallback)
  ELSE LET choice == choices.v[1] IN
  IF ~IsDict(choice) THEN Some(Fallback)
  ELSE IF ~HasKey(choice, "message") THEN Some(Fallback)
  ELSE LET message == choice.v["message"] IN
  IF ~IsDict(message) THEN Some(Fallback)
  ELSE IF ~HasKey(message, "content") THEN Some(Fallback)
  ELSE LET content == message.v["content"] IN
  IF content.t = "null" THEN Some(Fallback)
  ELSE ParseContent(PyStr(content))

(***************************************************************************)
(* Exceptions: [cls, status, body, text]. status > 0 when the exception    *)
(* carries an HTTP response (raise_for_status), body is the message of the *)
(* response's error object, text is str(e).                                *)
(***************************************************************************)
Exc(cls, status, body, text) ==
  [cls |-> cls, status |-> status, body |-> body, text |-> text]

\* the subclasses of requests.exceptions.RequestException
RequestExceptionClasses ==
  {"RequestException", "HTTPError", "ConnectionError", "Timeout", "SSLError",
   "TooManyRedirects", "ChunkedEncodingError", "ContentDecodingError"}

IsRequestException(e) == e.cls \in RequestExceptionClasses

\* APIConfig.timeout, seconds
ApiTimeout == 30

\* VisionAnalyzer._analyze_api_error: the explanation of a transport error.
\* Each message keeps its first sentence and its variable part; the fixed
\* guidance sentences between them are left out.
_analyze_api_error(error) ==
  IF error.status > 0 THEN
    LET msg == error.body
        code == error.status
    IN CASE code = 401 -> "Authentication failed (401): Invalid or expired API key. API response: " \o msg
         [] code = 403 -> "Access forbidden (403): API key doesn't have required permissions. API response: " \o msg
         [] code = 429 -> IF Contains(Lower(msg), "quota")
                          THEN "Quota exceeded (429): You've reached your API usage limit. API response: " \o msg
                          ELSE "Rate limit exceeded (429): Too many requests. API response: " \o msg
         [] code = 400 -> IF Contains(Lower(msg), "model")
                          THEN "Invalid model (400): The model may not exist or be accessible. API response: " \o msg
                          ELSE "Bad request (400): Invalid request format or parameters. API response: " \o msg
         [] code = 404 -> "Not found (404): The API endpoint or resource was not found. API response: " \o msg
         [] code = 422 -> "Unprocessable entity (422): The request was well-formed but contains invalid data. API response: " \o msg
         [] code = 500 -> "OpenAI server error (500): Temporary issue with OpenAI's servers. API response: " \o msg
         [] code = 502 -> "Bad gateway (502): Issue with OpenAI's server infrastructure. API response: " \o msg
         [] code = 503 -> "Service unavailable (503): OpenAI servers are temporarily overloaded. API response: " \o msg
         [] code = 504 -> "Gateway timeout (504): Request took too long to process. API response: " \o msg
         [] OTHER -> "HTTP " \o IntToStr(code) \o " error: "
                     \o (IF msg # "" THEN msg ELSE "Unknown error")
                     \o ". This is an unexpected status code. Full error: " \o error.text
  ELSE
    CASE error.cls = "ConnectionError" ->
           "Network connection error: Cannot reach OpenAI servers. Detailed error: " \o error.text
      [] error.cls = "Timeout" ->
           "Request timeout: API call took longer than " \o IntToStr(ApiTimeout)
           \o " seconds. Detailed error: " \o error.text
      [] error.cls = "SSLError" ->
           "SSL/TLS error: Problem with secure connection to OpenAI. Detailed error: " \o error.text
      [] error.cls = "TooManyRedirects" ->
           "Too many redirects: The request was redirected too many times. Detailed error: " \o error.text
      [] error.cls = "ChunkedEncodingError" ->
           "Chunked encoding error: Problem receiving response data. Detailed error: " \o error.text
      [] error.cls = "ContentDecodingError" ->
           "Content decoding error: Problem decoding the response. Detailed error: " \o error.text
      [] error.cls \in RequestExceptionClasses ->
           "Request exception: An unexpected network or HTTP error occurred. Detailed error: " \o error.text
      [] OTHER ->
           "Unexpected error: " \o error.cls \o ": " \o error.text

(***************************************************************************)
(* What the transport does with one POST: it raises, or a success-status   *)
(* response comes back and response.json() yields a JSON value.            *)
(***************************************************************************)
Raises(e) == [raised |-> TRUE, exc |-> e, json |-> JNull]
Returns(j) == [raised |-> FALSE, exc |-> Exc("", 0, "", ""), json |-> j]

\* VisionAnalyzer._make_api_request: a RequestException of any class is
\* re-raised as a plain RequestException whose text is the explanation; any
\* other exception propagates; otherwise the JSON body is returned.
_make_api_request(outcome) ==
  IF outcome.raised /\ IsRequestException(outcome.exc)
  THEN Raises(Exc("RequestException", outcome.exc.status, outcome.exc.body,
                  _analyze_api_error(outcome.exc)))
  ELSE outcome

\* the three except clauses of analyze_screenshot: the error_msg appended
ErrorMsg(e, retry_count) ==
  LET attempt == " (attempt " \o IntToStr(retry_count + 1) \o ")"
  IN CASE e.cls = "Timeout" ->
            "API timeout after " \o IntToStr(ApiTimeout) \o "s" \o attempt
       [] IsRequestException(e) -> "API request failed: " \o e.text \o attempt
       [] OTHER -> "Unexpected error: " \o e.text \o attempt

(***************************************************************************)
(* The transport outcomes and response texts the model draws from.         *)
(***************************************************************************)
ChatResponse(content) ==
  JDict("choices" :> JList(<< JDict("message" :> JDict("content" :> content)) >>))

\* the attempts that fail by an exception: timeout, connection failure,
\* HTTP 4xx, HTTP 5xx, and an exception that is no RequestException
FailingOutcomes ==
  << Raises(Exc("Timeout", 0, "", "First timeout")),
     Raises(Exc("ConnectionError", 0, "", "Connection failed")),
     Raises(Exc("HTTPError", 401, "Incorrect API key provided", "401 Client Error: Unauthorized")),
     Raises(Exc("HTTPError", 500, "", "500 Server Error: Internal Server Error")),
     Raises(Exc("ValueError", 0, "", "Expecting value: line 1 column 1")) >>

\* success-status responses whose body is empty
EmptyBodies == << Returns(JDict(<<>>)), Returns(JNull), Returns(JList(<<>>)) >>

\* success-status responses whose body is not empty and lacks a usable text
MalformedBodies ==
  << Returns(JList(<< JStr("unexpected") >>)),
     Returns(JStr("OK")),
     Returns(JDict("data" :> JStr("invalid structure"))),
     Returns(JDict("choices" :> JList(<<>>))),
     Returns(JDict("choices" :> JNull)),
     Returns(JDict("choices" :> JList(<< JDict(<<>>) >>))),
     Returns(JDict("choices" :> JList(<< JStr("message") >>))),
     Returns(JDict("choices" :> JList(<< JDict("message" :> JDict(<<>>)) >>))),
     Returns(JDict("choices" :> JList(<< JDict("message" :> JStr("content")) >>))),
     Returns(ChatResponse(JNull)),
     Returns(ChatResponse(JStr(""))),
     Returns(ChatResponse(JStr("   "))),
     Returns(ChatResponse(JStr(" \t\n"))) >>

\* every refusal phrase, as listed, in capitals, and inside a longer text
RefusalTexts ==
  [i \in 1..(4 * Len(refusal_patterns)) |->
     LET p == refusal_patterns[((i - 1) \div 4) + 1]
         k == (i - 1) % 4
     IN CASE k = 0 -> p
          [] k = 1 -> Upper(p)
          [] k = 2 -> " \"Unfortunately, " \o UpperChar(Head(p)) \o Tail(p) \o " this image.\" "
          [] k = 3 -> "Sorry: " \o Upper(p) \o "!" ]

\* texts close to a refusal phrase that contain none
NearRefusalTexts ==
  << "I can help you with this screenshot",
     "This image cannot be displayed properly",
     "I'm sorry to say this is a complex interface",
     "I cannot",
     "i can't",
     "cannot analyze",
     "I can not help",
     "I can' t provide" >>

WordPool == << "Web", "browser", "article", "reading", "on", "a", "news", "site", "today" >>

LeadIns == << "", "Screenshot of ", "this image shows   ", " \"", "'The image shows Image of " >>

\* texts of 0..MaxWords words, behind each lead-in
WordTexts ==
  [i \in 1..(Len(LeadIns) * (MaxWords + 1)) |->
     LeadIns[((i - 1) \div (MaxWords + 1)) + 1]
       \o Join(" ", SubSeq(WordPool, 1, (i - 1) % (MaxWords + 1))) ]

EdgeTexts == << "x", "\"\"", "'a'", "\" \"", "Image of", "ok", "Code editor Python file.", "..." >>

ContentTexts == RefusalTexts \o NearRefusalTexts \o WordTexts \o EdgeTexts

TextBodies ==
  [i \in 1..Len(ContentTexts) |-> Returns(ChatResponse(JStr(ContentTexts[i])))]

NonTextBodies == << Returns(ChatResponse(JInt(42))), Returns(ChatResponse(JInt(7))) >>

\* what one POST can do
Transport == FailingOutcomes \o EmptyBodies \o MalformedBodies \o NonTextBodies \o TextBodies

\* _make_api_request and _parse_description are pure functions of what the
\* transport does: their values for every outcome of Transport, computed once
\* (\o <<>> makes the function a tuple, so that it is not evaluated per use).
Requested == [n \in 1..Len(Transport) |-> _make_api_request(Transport[n])] \o <<>>

Described == [n \in 1..Len(Transport) |-> _parse_description(Transport[n].json)] \o <<>>

(***************************************************************************)
(* FileManager: names, patterns, sanitization.  A path of the desktop      *)
(* directory is modelled by its file name.                                 *)
(***************************************************************************)
DigitSet == {Char(Digits, i) : i \in 1..Len(Digits)}

\* \d+ : a non-empty run of digits
AllDigits(s) == s # "" /\ \A i \in 1..Len(s) : Char(s, i) \in DigitSet

\* s.endswith(p)
EndsWith(s, p) == Len(p) <= Len(s) /\ SubSeq(s, Len(s) - Len(p) + 1, Len(s)) = p

\* s[a:b] by 1-based inclusive positions; empty when b < a
Slice(s, a, b) == IF b < a THEN "" ELSE SubSeq(s, a, b)

\* int(digits)
RECURSIVE StrToInt(_)
StrToInt(s) ==
  IF s = "" THEN 0
  ELSE 10 * StrToInt(SubSeq(s, 1, Len(s) - 1)) + (IndexIn(Char(s, Len(s)), Digits) - 1)

\* the group of the four patterns:
\*   \d{4}-\d{2}-\d{2} at \d{1,2}\.\d{1,2}\.\d{2}
\* h and m are the lengths of the hour and the minute
TimestampShape(ts, h, m) ==
  /\ Len(ts) = 14 + h + 1 + m + 1 + 2
  /\ AllDigits(SubSeq(ts, 1, 4))
  /\ Char(ts, 5) = "-"
  /\ AllDigits(SubSeq(ts, 6, 7))
  /\ Char(ts, 8) = "-"
  /\ AllDigits(SubSeq(ts, 9, 10))
  /\ SubSeq(ts, 11, 14) = " at "
  /\ AllDigits(SubSeq(ts, 15, 14 + h))
  /\ Char(ts, 15 + h) = "."
  /\ AllDigits(SubSeq(ts, 16 + h, 15 + h + m))
  /\ Char(ts, 16 + h + m) = "."
  /\ AllDigits(SubSeq(ts, 17 + h + m, 18 + h + m))

\* (the mutant asks for a two-digit hour)
IsTimestampTwoDigitHour(ts) == \E m \in 1..2 : TimestampShape(ts, 2, m)

IsTimestamp(ts) == \E h \in 1..2, m \in 1..2 : TimestampShape(ts, h, m)

\* ^<prefix> (<timestamp>)\.png$ : the match, or None
MatchPlain(prefix, filename) ==
  IF /\ StartsWith(filename, prefix \o " ")
     /\ EndsWith(filename, ".png")
     /\ IsTimestamp(Slice(filename, Len(prefix) + 2, Len(filename) - 4))
  THEN Some(Slice(filename, Len(prefix) + 2, Len(filename) - 4))
  ELSE None

\* ^<prefix> (<timestamp>) \((\d+)\)\.png$ : the two groups of the match, or None
MatchNumbered(prefix, filename) ==
  LET rest == Slice(filename, Len(prefix) + 2, Len(filename) - 5)
      cuts == {k \in 1..Len(rest) :
                 /\ IsTimestamp(SubSeq(rest, 1, k))
                 /\ Slice(rest, k + 1, k + 2) = " ("
                 /\ AllDigits(Slice(rest, k + 3, Len(rest)))}
  IN IF /\ StartsWith(filename, prefix \o " ")
        /\ EndsWith(filename, ").png")
        /\ cuts # {}
     THEN LET k == CHOOSE k \in cuts : TRUE
          IN [some |-> TRUE, val |-> SubSeq(rest, 1, k),
              number |-> StrToInt(Slice(rest, k + 3, Len(rest)))]
     ELSE [some |-> FALSE, val |-> "", number |-> 0]

\* self.screenshot_pattern, numbered_pattern, legacy_screenshot_pattern,
\* legacy_numbered_pattern
screenshot_pattern(filename) == MatchPlain("Screenshot", filename)
numbered_pattern(filename) == MatchNumbered("Screenshot", filename)
legacy_screenshot_pattern(filename) == MatchPlain("Screen Shot", filename)
legacy_numbered_pattern(filename) == MatchNumbered("Screen Shot", filename)

\* ScreenshotFile; number_suffix is an Optional[int]
NoNumber == [some |-> FALSE, val |-> 0]
ScreenshotFile(path, original_name, timestamp_part, number_suffix) ==
  [path |-> path, original_name |-> original_name,
   timestamp_part |-> timestamp_part, number_suffix |-> number_suffix]

\* FileManager._parse_screenshot_filename: Some(ScreenshotFile) or no match
_parse_screenshot_filename(filename) ==
  LET mn == numbered_pattern(filename)
      ln == legacy_numbered_pattern(filename)
      mp == screenshot_pattern(filename)
      lp == legacy_screenshot_pattern(filename)
      none == ScreenshotFile("", "", "", NoNumber)
  IN CASE mn.some -> [some |-> TRUE,
                      val |-> ScreenshotFile(filename, filename, mn.val, Some(mn.number))]
       [] ln.some -> [some |-> TRUE,
                      val |-> ScreenshotFile(filename, filename, ln.val, Some(ln.number))]
       [] mp.some -> [some |-> TRUE,
                      val |-> ScreenshotFile(filename, filename, mp.val, NoNumber)]
       [] lp.some -> [some |-> TRUE,
                      val |-> ScreenshotFile(filename, filename, lp.val, NoNumber)]
       [] OTHER -> [some |-> FALSE, val |-> none]

_is_screenshot_file(filename) ==
  screenshot_pattern(filename).some \/ numbered_pattern(filename).some

_is_legacy_screenshot_file(filename) ==
  legacy_screenshot_pattern(filename).some \/ legacy_numbered_pattern(filename).some

\* filename.startswith("Screen Shot")
_is_legacy_format(filename) == StartsWith(filename, "Screen Shot")

\* description.replace(char, '') for every char of chars
RECURSIVE RemoveChars(_, _)
RemoveChars(s, chars) ==
  IF s = "" THEN ""
  ELSE IF Len(s) = 1 THEN (IF CharIn(s, chars) THEN "" ELSE s)
  ELSE RemoveChars(SubSeq(s, 1, Len(s) \div 2), chars)
         \o RemoveChars(SubSeq(s, Len(s) \div 2 + 1, Len(s)), chars)

\* (the mutant leaves the whitespace as it is)
WhitespaceKept(s) == s

\* re.sub(r'\s+', ' ', s)
RECURSIVE CollapseWhitespace(_)
CollapseWhitespace(s) ==
  IF s = "" THEN ""
  ELSE IF Len(s) = 1 THEN (IF IsSpace(s) THEN " " ELSE s)
  ELSE LET left == CollapseWhitespace(SubSeq(s, 1, Len(s) \div 2))
           right == CollapseWhitespace(SubSeq(s, Len(s) \div 2 + 1, Len(s)))
       IN \* a run of whitespace that spans the two halves is one space
          IF EndsWith(left, " ") /\ StartsWith(right, " ")
          THEN left \o DropFirst(right, 1) ELSE left \o right

\* Two characters outside ASCII, written here with ASCII stand-ins:
\* U+0149 (small n preceded by apostrophe), whose title case is the two
\* characters U+02BC (modifier letter apostrophe) and "N"; both are their own
\* lower case.
SmallNApostrophe == "@"
ModifierApostrophe == "^"

\* the title case of a character: one character, or two for U+0149
TitleChar(c) ==
  IF c = SmallNApostrophe THEN ModifierApostrophe \o "N" ELSE UpperChar(c)

\* str.capitalize(): the first character in title case, the others in lower case
Capitalize(s) == IF s = "" THEN "" ELSE TitleChar(Head(s)) \o Lower(Tail(s))

\* s.rsplit(' ', 1)[0]
RSplitLastSpace(s) ==
  LET spaces == {i \in 1..Len(s) : Char(s, i) = " "}
  IN IF spaces = {} THEN s
     ELSE Slice(s, 1, (CHOOSE i \in spaces : \A j \in spaces : j <= i) - 1)

InvalidChars == "<>:\"/\\|?*."
MaxLength == 50

\* FileManager._sanitize_filename
_sanitize_filename(description) ==
  LET d == Capitalize(Strip(CollapseWhitespace(RemoveChars(description, InvalidChars)),
                            Whitespace))
  IN IF Len(d) > MaxLength THEN RSplitLastSpace(SubSeq(d, 1, MaxLength)) ELSE d

\* pathlib: the suffix starts at the last dot of the name, unless that dot is
\* the first or the last character
LastDot(name) ==
  LET dots == {i \in 1..Len(name) : Char(name, i) = "."}
  IN IF dots = {} THEN 0 ELSE CHOOSE i \in dots : \A j \in dots : j <= i

PathSuffix(name) ==
  LET i == LastDot(name)
  IN IF 1 < i /\ i < Len(name) THEN SubSeq(name, i, Len(name)) ELSE ""

PathStem(name) == Slice(name, 1, Len(name) - Len(PathSuffix(name)))

(***************************************************************************)
(* State.                                                                  *)
(***************************************************************************)
VARIABLES
  \* VisionAnalyzer
  max_retries,   \* api_config.max_retries
  pc,            \* "idle": no call yet; "loop": at the while test; "done": returned
  retry_count,   \* the local retry_count of analyze_screenshot
  last_errors,   \* self.last_errors
  returned,      \* the AnalysisResults the current call has returned
  log,           \* what the current call did to its collaborators, in order:
                 \* image preparations, POSTs, sleeps, track_request calls
  \* FileManager and the desktop directory
  directory,     \* the names of the files of the desktop directory
  fpc,           \* "start", "scanned", "grouped": between the calls of a pass;
                 \* "rename", "probe", "move": inside rename_screenshot_group;
                 \* "off": the file manager is not used
  screenshots,   \* the list scan_screenshots returned
  groups,        \* the groups of group_screenshots_by_timestamp, in dict order
  gi,            \* the number of groups the pass is through with
  shared_description, \* the description argument of the current rename call
  todo,          \* the records the current rename call has not handled yet
  results,       \* the RenameResults of the current rename call
  target,        \* new_path: the argument of _resolve_conflicts
  counter,       \* the counter of _resolve_conflicts
  final_path,    \* what _resolve_conflicts returned
  renames,       \* per record handled in the current call: the record, its
                 \* new_path, whether that path existed, the final path, the move
  form,          \* "group": rename_screenshot_group is called; "single": rename_file
  passes,        \* the number of scans made so far
  moves,         \* every move that succeeded, in order: its pass, the group
                 \* renamed (0 for rename_file), its source path and its final path
  initial_directory, \* the directory before the first scan
  external,      \* whether another agent has changed the directory
  \* one call of _parse_screenshot_filename or of _sanitize_filename
  upc,           \* "off": no such call; "given": the argument is chosen;
                 \* "parsed", "sanitized", "resanitized": the call has returned
  parts,         \* the pieces the file name is written from
  file_name,     \* the filename argument
  screenshot_info,   \* what _parse_screenshot_filename returned
  given_description, \* the description argument
  clean_description, \* what _sanitize_filename returned
  clean_again,       \* what _sanitize_filename returned for clean_description
  \* one call of test_connection
  get_outcome,   \* what session.get does
  connection,    \* what test_connection returned
  \* ScreenshotRenamer.process_all_screenshots, its logger and cost calculator
  session_log,   \* logger.session_log: the entries of the session, in order
  summary,       \* logger.summary: the counts of the session
  actual_costs,  \* cost_calculator.actual_costs: the requests tracked
  log_file,      \* what save_log has appended to the log file: per call, the
                 \* entries it wrote
  steps,         \* what the batch has done, in order: validations, analysis
                 \* calls and returns, rename calls and returns
  interrupted_at \* "": no interrupt yet; else where the KeyboardInterrupt arrived

avars == << max_retries, pc, retry_count, last_errors, returned, log >>

hvars == << form, passes, moves, initial_directory, external >>

fvars == << directory, fpc, screenshots, groups, gi, shared_description, todo, results,
            target, counter, final_path, renames, hvars >>

uvars == << upc, parts, file_name, screenshot_info, given_description,
            clean_description, clean_again, get_outcome, connection >>

svars == << session_log, summary, actual_costs, log_file, steps, interrupted_at >>

vars == << avars, fvars, uvars, svars >>

\* an entry of log
Ev(ev, ok, n, text) == [ev |-> ev, ok |-> ok, n |-> n, text |-> text]
EvPrepare(ok) == Ev("prepare", ok, 0, "")
\* the n-th outcome of Transport; ok: a response came back
EvPost(n) == Ev("post", ~Transport[n].raised, n, "")
EvSleep(secs) == Ev("sleep", TRUE, secs, "")
\* cost_calculator.track_request(success, response_text)
EvTrack(success, text) == Ev("track", success, 0, text)

(***************************************************************************)
(* VisionAnalyzer.analyze_screenshot.                                      *)
(***************************************************************************)
AnalysisResult(success, description, error_message, error_details, rc) ==
  [success |-> success, description |-> description,
   error_message |-> error_message, error_details |-> error_details,
   retry_count |-> rc]

\* `while retry_count <= self.api_config.max_retries` (the mutant stops one early)
LoopContinuesStrict(rc, mr) == rc < mr

LoopContinues(rc, mr) == rc <= mr

\* `if response:`
ResponseUsable(response) == Truthy(response)

\* `if retry_count <= self.api_config.max_retries` before the sleep
\* (the mutant sleeps after every failed attempt)
ShouldBackoffAlways(rc, mr) == TRUE

ShouldBackoff(rc, mr) == rc <= mr

\* `2 ** retry_count` seconds
Backoff(rc) == 2 ^ rc

\* the return of a failed image preparation; retry_count is left at its default
\* (the mutant returns no error_details)
PrepareFailedResultBare(rc) ==
  AnalysisResult(FALSE, None, Some("Failed to process image file"), None, 0)

PrepareFailedResult(rc) ==
  AnalysisResult(FALSE, None,
    Some("Failed to process image file"),
    Some("Could not read, convert, or encode the image file. Check if the file is corrupted or in an unsupported format."),
    0)

RefusalResult(rc) ==
  AnalysisResult(FALSE, None,
    Some("AI safety filter refused to analyze image"),
    Some("The AI model's safety filters prevented analysis of this image. This typically happens with screenshots containing sensitive, personal, or inappropriate content."),
    rc)

SuccessResult(description, rc) == AnalysisResult(TRUE, Some(description), None, None, rc)

\* the return after the loop
ExhaustedResult(rc, errors) ==
  AnalysisResult(FALSE, None,
    Some("Failed after " \o IntToStr(rc) \o " attempts"),
    Some("All attempts failed. Details: "
         \o (IF errors # <<>> THEN Join("; ", errors)
             ELSE "No specific error details captured")),
    rc)

\* entry of analyze_screenshot: retry_count = 0, self.last_errors = []
Call ==
  /\ pc \in {"idle", "done"}
  /\ pc' = "loop"
  /\ retry_count' = 0
  /\ last_errors' = <<>>
  /\ returned' = <<>>
  /\ log' = <<>>
  /\ UNCHANGED << max_retries, fvars, uvars, svars >>

\* the end of a loop iteration that did not return: retry_count += 1 and the
\* backoff sleep; `events` is what the iteration did before
EndOfIteration(events) ==
  /\ retry_count' = retry_count + 1
  /\ log' = IF ShouldBackoff(retry_count + 1, max_retries)
            THEN log \o events \o << EvSleep(Backoff(retry_count + 1)) >>
            ELSE log \o events
  /\ pc' = "loop"
  /\ UNCHANGED returned

\* an iteration whose _prepare_image returns None
\* (the mutant treats it as one more failed attempt and goes on)
IterationPrepareFailedRetried ==
  /\ pc = "loop"
  /\ LoopContinues(retry_count, max_retries)
  /\ EndOfIteration(<< EvPrepare(FALSE) >>)
  /\ UNCHANGED << max_retries, last_errors, fvars, uvars, svars >>

IterationPrepareFailed ==
  /\ pc = "loop"
  /\ LoopContinues(retry_count, max_retries)
  /\ log' = Append(log, EvPrepare(FALSE))
  /\ returned' = Append(returned, PrepareFailedResult(retry_count))
  /\ pc' = "done"
  /\ UNCHANGED << max_retries, retry_count, last_errors, fvars, uvars, svars >>

\* an iteration whose request raises: the error is recorded, then the backoff
IterationRaised(n) ==
  /\ pc = "loop"
  /\ LoopContinues(retry_count, max_retries)
  /\ LET r == Requested[n]
     IN /\ r.raised
        /\ last_errors' = Append(last_errors, ErrorMsg(r.exc, retry_count))
        /\ EndOfIteration(<< EvPrepare(TRUE), EvPost(n) >>)
  /\ UNCHANGED << max_retries, fvars, uvars, svars >>

\* an iteration whose request returns a body that `if response:` rejects
IterationEmpty(n) ==
  /\ pc = "loop"
  /\ LoopContinues(retry_count, max_retries)
  /\ LET r == Requested[n]
     IN /\ ~r.raised
        /\ ~ResponseUsable(r.json)
        /\ EndOfIteration(<< EvPrepare(TRUE), EvPost(n) >>)
  /\ UNCHANGED << max_retries, last_errors, fvars, uvars, svars >>

\* an iteration whose request returns a usable body: refusal or success
IterationResponded(n) ==
  /\ pc = "loop"
  /\ LoopContinues(retry_count, max_retries)
  /\ LET r == Requested[n]
     IN /\ ~r.raised
        /\ ResponseUsable(r.json)
        /\ LET description == Described[n]
           IN IF ~description.some
              THEN /\ log' = log \o << EvPrepare(TRUE), EvPost(n), EvTrack(FALSE, "") >>
                   /\ returned' = Append(returned, RefusalResult(retry_count))
              ELSE /\ log' = log \o << EvPrepare(TRUE), EvPost(n),
                                      EvTrack(TRUE, description.val) >>
                   /\ returned' = Append(returned, SuccessResult(description.val, retry_count))
  /\ pc' = "done"
  /\ UNCHANGED << max_retries, retry_count, last_errors, fvars, uvars, svars >>

\* the loop has ended: track the failure and return it
Exhausted ==
  /\ pc = "loop"
  /\ ~LoopContinues(retry_count, max_retries)
  /\ log' = Append(log, EvTrack(FALSE, ""))
  /\ returned' = Append(returned, ExhaustedResult(retry_count, last_errors))
  /\ pc' = "done"
  /\ UNCHANGED << max_retries, retry_count, last_errors, fvars, uvars, svars >>

\* the analyzer after construction
AnalyzerConstructed ==
  /\ pc = "idle"
  /\ retry_count = 0
  /\ last_errors = <<>>
  /\ returned = <<>>
  /\ log = <<>>

\* process_all_screenshots is not called: no logger, no cost calculator
NoSession ==
  /\ session_log = <<>>
  /\ summary = [total_files |-> 0, successful_renames |-> 0, failed_renames |-> 0,
                api_failures |-> 0, errors |-> <<>>]
  /\ actual_costs = [successful_requests |-> 0, failed_requests |-> 0]
  /\ log_file = <<>>
  /\ steps = <<>>
  /\ interrupted_at = ""

\* no pass of the file manager is under way
FileManagerAt(at) ==
  /\ NoSession
  /\ fpc = at
  /\ screenshots = <<>>
  /\ groups = <<>>
  /\ gi = 0
  /\ shared_description = ""
  /\ todo = <<>>
  /\ results = <<>>
  /\ target = ""
  /\ counter = 0
  /\ final_path = ""
  /\ renames = <<>>
  /\ form = "group"
  /\ passes = 0
  /\ moves = <<>>
  /\ initial_directory = directory
  /\ external = FALSE

\* no unit call is under way
NoParts ==
  [prefix |-> "", date |-> "", hour |-> "", minute |-> "", second |-> "",
   numbered |-> FALSE, number |-> 0, padding |-> "", extension |-> ""]

\* test_connection has not been called
NoConnectionTest ==
  /\ get_outcome = [raised |-> FALSE, exc |-> [cls |-> "", status |-> 0, body |-> "", text |-> ""],
                    status |-> 0, body |-> "", json_ok |-> FALSE, models |-> <<>>]
  /\ connection = [ok |-> FALSE, message |-> ""]

UnitAt(at) ==
  /\ upc = at
  /\ parts = NoParts
  /\ file_name = ""
  /\ screenshot_info = [some |-> FALSE, val |-> ScreenshotFile("", "", "", NoNumber)]
  /\ given_description = ""
  /\ clean_description = ""
  /\ clean_again = ""
  /\ NoConnectionTest

AnalyzeInit ==
  /\ max_retries \in -1..MaxRetries
  /\ AnalyzerConstructed
  /\ directory = {}
  /\ FileManagerAt("off")
  /\ UnitAt("off")

AnalyzeNext ==
  \/ Call
  \/ IterationPrepareFailed
  \/ \E n \in 1..Len(Transport) : IterationRaised(n)
  \/ \E n \in 1..Len(Transport) : IterationEmpty(n)
  \/ \E n \in 1..Len(Transport) : IterationResponded(n)
  \/ Exhausted

AnalyzeSpec == AnalyzeInit /\ [][AnalyzeNext]_vars

\* every step of a call is taken: the function runs to its return
FairAnalyzeSpec == AnalyzeSpec /\ WF_vars(AnalyzeNext)

(***************************************************************************)
(* Reading the log of a call.                                              *)
(***************************************************************************)
IsPost(e) == e.ev = "post"
IsSleep(e) == e.ev = "sleep"
IsPrepare(e) == e.ev = "prepare"
IsTrack(e) == e.ev = "track"

Posts == SelectSeq(log, IsPost)
Sleeps == SelectSeq(log, IsSleep)
Prepares == SelectSeq(log, IsPrepare)

Done == pc = "done"
Result == returned[1]

\* the positions of Transport by kind of outcome
FailingIdx == 1..Len(FailingOutcomes)
EmptyIdx == (Len(FailingOutcomes) + 1)..(Len(FailingOutcomes) + Len(EmptyBodies))
MalformedIdx ==
  (Len(FailingOutcomes) + Len(EmptyBodies) + 1)
    ..(Len(FailingOutcomes) + Len(EmptyBodies) + Len(MalformedBodies))
TextIdx == (Len(Transport) - Len(TextBodies) + 1)..Len(Transport)

\* the text of the n-th outcome, a text response
TextOf(n) == ContentTexts[n - (Len(Transport) - Len(TextBodies))]

\* the index of the first occurrence of p in s at or after position from; 0 if none
FindFrom(s, p, from) ==
  LET hits == {i \in from..(Len(s) - Len(p) + 1) : SubSeq(s, i, i + Len(p) - 1) = p}
  IN IF hits = {} THEN 0 ELSE CHOOSE i \in hits : \A j \in hits : i <= j

\* the pieces occur in s one after the other, without overlap, from position from on
RECURSIVE InOrder(_, _, _)
InOrder(s, pieces, from) ==
  IF pieces = <<>> THEN TRUE
  ELSE LET at == FindFrom(s, Head(pieces), from)
       IN at > 0 /\ InOrder(s, Tail(pieces), at + Len(Head(pieces)))

\* what the failure of the n-th outcome said: the API's message when the
\* exception carries a response, the exception's own text otherwise
UnderlyingText(n) ==
  LET e == Transport[n].exc IN IF e.status > 0 THEN e.body ELSE e.text

\* for attempts 1..k of the posts: the underlying text, then the attempt number
RECURSIVE AttemptPieces(_, _)
AttemptPieces(posts, k) ==
  IF k = 0 THEN <<>>
  ELSE AttemptPieces(posts, k - 1)
         \o << UnderlyingText(posts[k].n), "(attempt " \o IntToStr(k) \o ")" >>

AllAttemptsRaised ==
  /\ \A i \in 1..Len(log) : IsPrepare(log[i]) => log[i].ok
  /\ \A i \in 1..Len(log) : IsPost(log[i]) => log[i].n \in FailingIdx

\* C1: with max_retries = n >= 0 and every attempt failing by an exception of
\* whatever class, the call makes exactly n+1 requests, then returns a failure
\* whose error_message reports n+1 attempts and whose error_details holds the
\* message of every attempt, in attempt order.
C1_RetryExhaustion ==
  (max_retries >= 0 /\ AllAttemptsRaised) =>
     /\ Len(Posts) <= max_retries + 1
     /\ Done =>
          /\ Len(Posts) = max_retries + 1
          /\ ~Result.success
          /\ Result.error_message
               = Some("Failed after " \o IntToStr(max_retries + 1) \o " attempts")
          /\ Result.error_details.some
          /\ InOrder(Result.error_details.val, AttemptPieces(Posts, Len(Posts)), 1)

\* a call with max_retries = 2 ended after a timeout, an HTTP 401 and an
\* exception that is no RequestException
C1_Witness ==
  /\ Done
  /\ max_retries = 2
  /\ AllAttemptsRaised
  /\ Len(Posts) = 3
  /\ Posts[1].n = 1 /\ Posts[2].n = 3 /\ Posts[3].n = 5
  /\ Result.error_message = Some("Failed after 3 attempts")

\* C2: a success-status response with a malformed body (not a mapping, an
\* empty body, no or empty results list, no message or content field, null,
\* empty or whitespace-only content) ends the call on that attempt with the
\* placeholder description: it is not retried and the call does not fail.
C2_MalformedDegrades ==
  \A i \in 1..Len(log) :
     (IsPost(log[i]) /\ log[i].n \in (EmptyIdx \cup MalformedIdx)) =>
        /\ Done
        /\ \A j \in (i + 1)..Len(log) : ~IsPost(log[j]) /\ ~IsSleep(log[j])
        /\ Result = SuccessResult(Fallback, Len(Posts) - 1)

\* C3: a failed image preparation ends the call at once: nothing follows it
\* (no request, no backoff, no further attempt), no request of the same
\* attempt precedes it, and the failure carries the fixed message and the
\* corrupted/unsupported guidance.
C3_PrepareFailureTerminal ==
  \A i \in 1..Len(log) :
     (IsPrepare(log[i]) /\ ~log[i].ok) =>
        /\ i = Len(log)
        /\ i = 1 \/ IsSleep(log[i - 1])
        /\ Done
        /\ ~Result.success
        /\ ~Result.description.some
        /\ Result.error_message = Some("Failed to process image file")
        /\ Result.error_details.some
        /\ Contains(Result.error_details.val, "corrupted")
        /\ Contains(Result.error_details.val, "unsupported format")

\* the preparation failed on the second attempt, after a failed request
C3_Witness ==
  /\ Done
  /\ Len(log) = 4
  /\ IsPost(log[2]) /\ IsSleep(log[3])
  /\ IsPrepare(log[4]) /\ ~log[4].ok
  /\ Result.error_message = Some("Failed to process image file")

\* p occurs in text somewhere, letter case ignored
OccursIgnoringCase(text, p) ==
  \E i \in 1..(Len(text) - Len(p) + 1) : Lower(SubSeq(text, i, i + Len(p) - 1)) = p

\* for every outcome of Transport: it is a text response whose text holds
\* one of the refusal phrases
HoldsRefusalPhrase ==
  [n \in 1..Len(Transport) |->
     /\ n \in TextIdx
     /\ \E k \in 1..Len(refusal_patterns) : OccursIgnoringCase(TextOf(n), refusal_patterns[k])]
  \o <<>>

IsRefusalResult(r) ==
  /\ ~r.success
  /\ ~r.description.some
  /\ r.error_message = Some("AI safety filter refused to analyze image")

\* C4: a response whose text holds a refusal phrase (any letter case, anywhere
\* in the text) ends the call with the safety-refusal failure, with no request
\* and no backoff after it; a response that holds none never produces the
\* refusal failure.
C4_RefusalDetection ==
  /\ \A i \in 1..Len(log) :
        (IsPost(log[i]) /\ HoldsRefusalPhrase[log[i].n]) =>
           /\ Done
           /\ IsRefusalResult(Result)
           /\ \A j \in (i + 1)..Len(log) : IsTrack(log[j])
  /\ (Done /\ IsRefusalResult(Result)) =>
        /\ Posts # <<>>
        /\ HoldsRefusalPhrase[Posts[Len(Posts)].n]

\* a refusal phrase in capitals inside a longer text, refused on the second attempt
C4_Witness ==
  /\ Done
  /\ IsRefusalResult(Result)
  /\ Len(Posts) = 2
  /\ Posts[2].n \in TextIdx
  /\ TextOf(Posts[2].n) = "Sorry: I CAN'T ASSIST WITH!"

\* C5 (state part): a call returns at most one AnalysisResult, exactly one
\* once it is done; the description is present iff success, error_message and
\* error_details iff failure.
ResultWellFormed ==
  /\ Len(returned) <= 1
  /\ Done <=> Len(returned) = 1
  /\ Done =>
       /\ Result.description.some <=> Result.success
       /\ Result.error_message.some <=> ~Result.success
       /\ Result.error_details.some <=> ~Result.success

\* C5: for every sequence of per-attempt results and every max_retries the
\* call terminates and returns exactly one well-formed AnalysisResult.
C5_AlwaysReturnsOneResult ==
  /\ []ResultWellFormed
  /\ (pc = "loop") ~> Done

\* a call that returned a success after two failed attempts
C5_Witness ==
  /\ Done
  /\ Len(returned) = 1
  /\ Result.success
  /\ Len(Posts) = 3

\* C6: a description returned for a non-refused response has at most 5 words.
C6_AtMostFiveWords ==
  (Done /\ Result.success) => Len(Split(Result.description.val)) <= 5

\* the requests of the call that did not end it with a return
FailedAttempts ==
  Cardinality({i \in 1..Len(Posts) : ~(Posts[i].ok /\ ResponseUsable(Transport[Posts[i].n].json))})

\* C7: on every return path the retry_count of the result is the number of
\* failed attempts of the call.
C7_RetryCountIsFailedAttempts ==
  Done => Result.retry_count = FailedAttempts

\* the number of prepare events among the first i entries of the log
PreparesUpTo(i) == Cardinality({j \in 1..i : IsPrepare(log[j])})

\* C8: the k-th retry is preceded by exactly one wait of 2^k seconds; there
\* is no wait before the first attempt, none after the last permitted attempt
\* failed, none after a terminal outcome.
C8_ExponentialBackoff ==
  /\ \A i \in 1..Len(log) :
        IsPrepare(log[i]) =>
           IF PreparesUpTo(i) = 1 THEN i = 1
           ELSE /\ IsSleep(log[i - 1])
                /\ log[i - 1].n = 2 ^ (PreparesUpTo(i) - 1)
  /\ \A i \in 1..Len(log) :
        IsSleep(log[i]) =>
           /\ i > 1 /\ IsPost(log[i - 1])
           /\ i < Len(log) => IsPrepare(log[i + 1])
           /\ PreparesUpTo(i) <= max_retries
  /\ Done => (log # <<>> /\ ~IsSleep(log[Len(log)]))

\* max_retries = 2: waits of 2 and 4 seconds, and none after the third failure
C8_Witness ==
  /\ Done
  /\ max_retries = 2
  /\ Len(Posts) = 3
  /\ Len(Sleeps) = 2
  /\ Sleeps[1].n = 2 /\ Sleeps[2].n = 4
  /\ ~Posts[3].ok
  /\ IsTrack(log[Len(log)]) /\ IsPost(log[Len(log) - 1])

(***************************************************************************)
(* FileManager: scan, grouping and the group rename, on a directory.       *)
(***************************************************************************)
Timestamp1 == "2025-06-09 at 9.15.24"
Timestamp2 == "2022-05-21 at 21.21.27"

\* the files a desktop directory may hold at the start: screenshots of both
\* families, numbered and not, and files that already carry a description
NamePool ==
  { "Screenshot " \o Timestamp1 \o ".png",
    "Screenshot " \o Timestamp1 \o " (1).png",
    "Screenshot " \o Timestamp1 \o " (2).png",
    "Screenshot " \o Timestamp1 \o " (01).png",
    "Screenshot " \o Timestamp1 \o " (0).png",
    "Screen Shot " \o Timestamp1 \o ".png",
    "Screen Shot " \o Timestamp2 \o ".png",
    "Screenshot " \o Timestamp1 \o " - Video call.png",
    "Screenshot " \o Timestamp1 \o " - Video call (1).png" }

\* the descriptions a group is renamed with
Descriptions == { "Video call", " code editor:  Python file." }

\* all orders of the elements of a finite set
Orders(S) ==
  {f \in [1..Cardinality(S) -> S] : \A i, j \in 1..Cardinality(S) : f[i] = f[j] => i = j}

\* Path.glob("Screenshot*.png") and Path.glob("Screen Shot*.png")
GlobModern(dir) == {n \in dir : StartsWith(n, "Screenshot") /\ EndsWith(n, ".png")}
GlobLegacy(dir) == {n \in dir : StartsWith(n, "Screen Shot") /\ EndsWith(n, ".png")}

\* the records of the names of a glob, in its order, that pass the filter
RECURSIVE ParsedOf(_)
ParsedOf(names) ==
  IF names = <<>> THEN <<>>
  ELSE LET info == _parse_screenshot_filename(Head(names))
       IN (IF info.some THEN << info.val >> ELSE <<>>) \o ParsedOf(Tail(names))

\* FileManager.scan_screenshots; the order of a glob is the directory's
Scan ==
  /\ fpc = "start"
  /\ \E modern \in Orders({n \in GlobModern(directory) : _is_screenshot_file(n)}),
        legacy \in Orders({n \in GlobLegacy(directory) : _is_legacy_screenshot_file(n)}) :
        screenshots' = ParsedOf(modern) \o ParsedOf(legacy)
  /\ fpc' = "scanned"
  /\ passes' = passes + 1
  /\ UNCHANGED << directory, groups, gi, shared_description, todo, results, target,
                  counter, final_path, renames, form, moves, initial_directory, external,
                  avars, uvars, svars >>

\* (the mutant sorts by the number only where there is none)
SortKeyAbsentLast(s) == IF s.number_suffix.some THEN 0 ELSE 1

\* the sort key: s.number_suffix or 0
SortKey(s) == IF s.number_suffix.some THEN s.number_suffix.val ELSE 0

\* sorted(group, key=...): a stable sort, here by insertion
RECURSIVE InsertSorted(_, _)
InsertSorted(sorted, s) ==
  IF sorted = <<>> THEN << s >>
  ELSE IF SortKey(sorted[Len(sorted)]) <= SortKey(s) THEN Append(sorted, s)
  ELSE Append(InsertSorted(SubSeq(sorted, 1, Len(sorted) - 1), s), sorted[Len(sorted)])

RECURSIVE Sorted(_)
Sorted(group) ==
  IF group = <<>> THEN <<>>
  ELSE InsertSorted(Sorted(SubSeq(group, 1, Len(group) - 1)), group[Len(group)])

\* the keys of the dict, in the order of their first record
RECURSIVE KeysOf(_)
KeysOf(records) ==
  IF records = <<>> THEN <<>>
  ELSE LET before == KeysOf(SubSeq(records, 1, Len(records) - 1))
           k == records[Len(records)].timestamp_part
       IN IF \E i \in 1..Len(before) : before[i] = k THEN before ELSE Append(before, k)

\* FileManager.group_screenshots_by_timestamp
group_screenshots_by_timestamp(records) ==
  LET keys == KeysOf(records)
  IN [i \in 1..Len(keys) |->
        [timestamp |-> keys[i],
         files |-> Sorted(SelectSeq(records, LAMBDA s : s.timestamp_part = keys[i]))]]

Group ==
  /\ fpc = "scanned"
  /\ groups' = group_screenshots_by_timestamp(screenshots)
  /\ gi' = 0
  /\ fpc' = "grouped"
  /\ UNCHANGED << directory, screenshots, shared_description, todo, results, target,
                  counter, final_path, renames, hvars, avars, uvars, svars >>

\* Path.exists()
Exists(name, dir) == name \in dir

\* the prefix of the new name (the mutant gives every file the modern prefix)
PrefixModernOnly(original_name) == "Screenshot"

Prefix(original_name) ==
  IF _is_legacy_format(original_name) THEN "Screen Shot" ELSE "Screenshot"

\* (the mutant leaves the description out of the new name)
NewNameUndescribed(screenshot, descr) ==
  LET base_name == Prefix(screenshot.original_name) \o " " \o screenshot.timestamp_part
  IN IF screenshot.number_suffix.some
     THEN base_name \o " (" \o IntToStr(screenshot.number_suffix.val) \o ").png"
     ELSE base_name \o ".png"

\* new_name of rename_screenshot_group
NewName(screenshot, descr) ==
  LET base_name == Prefix(screenshot.original_name) \o " " \o screenshot.timestamp_part
                     \o " - " \o _sanitize_filename(descr)
  IN IF screenshot.number_suffix.some
     THEN base_name \o " (" \o IntToStr(screenshot.number_suffix.val) \o ").png"
     ELSE base_name \o ".png"

\* new_name of rename_file: the description is appended to the original name
NewNameOfFile(screenshot, descr) ==
  TakeFirst(screenshot.original_name, Len(screenshot.original_name) - 4)
    \o " - " \o _sanitize_filename(descr) \o ".png"

\* the name _resolve_conflicts probes with its counter
\* (the mutant starts one further on)
ProbeNameSkipping(path, k) ==
  PathStem(path) \o " (" \o IntToStr(k + 1) \o ")" \o PathSuffix(path)

ProbeName(path, k) == PathStem(path) \o " (" \o IntToStr(k) \o ")" \o PathSuffix(path)

RenameResult(success, original_path, new_path, error_message) ==
  [success |-> success, original_path |-> original_path,
   new_path |-> new_path, error_message |-> error_message]

\* the pass calls rename_screenshot_group for the next group, with a description
RenameGroupCall(descr) ==
  /\ fpc = "grouped"
  /\ gi < Len(groups)
  /\ shared_description' = descr
  /\ todo' = groups[gi + 1].files
  /\ results' = <<>>
  /\ renames' = <<>>
  /\ form' = "group"
  /\ fpc' = "rename"
  /\ UNCHANGED << directory, screenshots, groups, gi, target, counter, final_path,
                  passes, moves, initial_directory, external, avars, uvars, svars >>

\* (the mutant moves onto new_path without the check of _resolve_conflicts)
BeginRenameUnchecked ==
  /\ fpc = "rename"
  /\ todo # <<>>
  /\ LET new_path == IF form = "single"
                     THEN NewNameOfFile(Head(todo), shared_description)
                     ELSE NewName(Head(todo), shared_description)
     IN /\ target' = new_path
        /\ final_path' = new_path
        /\ counter' = 0
        /\ fpc' = "move"
  /\ UNCHANGED << directory, screenshots, groups, gi, shared_description, todo, results,
                  renames, hvars, avars, uvars, svars >>

\* the next record: its new_path, and the entry of _resolve_conflicts
BeginRename ==
  /\ fpc = "rename"
  /\ todo # <<>>
  /\ LET new_path == IF form = "single"
                     THEN NewNameOfFile(Head(todo), shared_description)
                     ELSE NewName(Head(todo), shared_description)
     IN /\ target' = new_path
        /\ IF ~Exists(new_path, directory)
           THEN /\ final_path' = new_path
                /\ counter' = 0
                /\ fpc' = "move"
           ELSE /\ final_path' = ""
                /\ counter' = 1
                /\ fpc' = "probe"
  /\ UNCHANGED << directory, screenshots, groups, gi, shared_description, todo, results,
                  renames, hvars, avars, uvars, svars >>

\* (the mutant returns the first numbered path without looking at it)
ProbeUnchecked ==
  /\ fpc = "probe"
  /\ final_path' = ProbeName(target, counter)
  /\ fpc' = "move"
  /\ UNCHANGED << directory, screenshots, groups, gi, shared_description, todo, results,
                  target, counter, renames, hvars, avars, uvars, svars >>

\* one iteration of the `while True` of _resolve_conflicts
Probe ==
  /\ fpc = "probe"
  /\ LET new_path == ProbeName(target, counter)
     IN IF ~Exists(new_path, directory)
        THEN /\ final_path' = new_path
             /\ fpc' = "move"
             /\ UNCHANGED counter
        ELSE /\ counter' = counter + 1
             /\ UNCHANGED << final_path, fpc >>
  /\ UNCHANGED << directory, screenshots, groups, gi, shared_description, todo, results,
                  target, renames, hvars, avars, uvars, svars >>

RenameEntry(moved) ==
  [file |-> Head(todo), new_path |-> target, taken |-> Exists(target, directory),
   final_path |-> final_path, moved |-> moved]

\* screenshot.path.rename(final_path) succeeds
MoveSucceeds ==
  /\ fpc = "move"
  /\ Exists(Head(todo).path, directory)
  /\ directory' = (directory \ {Head(todo).path}) \cup {final_path}
  /\ results' = Append(results, RenameResult(TRUE, Head(todo).path, Some(final_path), None))
  /\ renames' = Append(renames, RenameEntry(TRUE))
  /\ moves' = Append(moves, [pass |-> passes, group |-> IF form = "single" THEN 0 ELSE gi + 1,
                               from |-> Head(todo).path,
                               to |-> final_path])
  /\ todo' = Tail(todo)
  /\ fpc' = "rename"
  /\ UNCHANGED << screenshots, groups, gi, shared_description, target, counter,
                  final_path, form, passes, initial_directory, external, avars, uvars, svars >>

\* (the mutant lets the error end the call: the records left are dropped)
MoveFailsAborts ==
  /\ fpc = "move"
  /\ results' = Append(results,
                  RenameResult(FALSE, Head(todo).path, None, Some("[Errno 13] Permission denied")))
  /\ renames' = Append(renames, RenameEntry(FALSE))
  /\ todo' = <<>>
  /\ fpc' = "rename"
  /\ UNCHANGED << directory, screenshots, groups, gi, shared_description, target, counter,
                  final_path, hvars, avars, uvars, svars >>

\* screenshot.path.rename(final_path) raises (permission, I/O error)
MoveFails ==
  /\ fpc = "move"
  /\ results' = Append(results,
                  RenameResult(FALSE, Head(todo).path, None, Some("[Errno 13] Permission denied")))
  /\ renames' = Append(renames, RenameEntry(FALSE))
  /\ todo' = Tail(todo)
  /\ fpc' = "rename"
  /\ UNCHANGED << directory, screenshots, groups, gi, shared_description, target, counter,
                  final_path, hvars, avars, uvars, svars >>

\* rename_screenshot_group returns its results; the pass goes to the next group
RenameGroupReturn ==
  /\ fpc = "rename"
  /\ form = "group"
  /\ todo = <<>>
  /\ gi' = gi + 1
  /\ fpc' = "grouped"
  /\ UNCHANGED << directory, screenshots, groups, shared_description, todo, results,
                  target, counter, final_path, renames, hvars, avars, uvars, svars >>

RenameInit ==
  /\ max_retries = 0
  /\ AnalyzerConstructed
  /\ directory \in {d \in SUBSET NamePool : Cardinality(d) <= MaxFiles}
  /\ FileManagerAt("start")
  /\ UnitAt("off")

RenameNext ==
  \/ Scan
  \/ Group
  \/ \E descr \in Descriptions : RenameGroupCall(descr)
  \/ BeginRename
  \/ Probe
  \/ MoveSucceeds
  \/ MoveFails
  \/ RenameGroupReturn

RenameSpec == RenameInit /\ [][RenameNext]_vars

\* the loop of _resolve_conflicts runs on: a probe that can be made is made
FairRenameSpec == RenameSpec /\ WF_vars(Probe)

(***************************************************************************)
(* The group rename and the conflict resolution.                           *)
(***************************************************************************)
\* the family of a record, by the pattern its original name matches
IsLegacyRecord(file) == _is_legacy_screenshot_file(file.original_name)

\* "<prefix> <timestampKey> - <sanitized description>[ (<n>)].png"
ExpectedName(file, descr) ==
  (IF IsLegacyRecord(file) THEN "Screen Shot" ELSE "Screenshot")
    \o " " \o file.timestamp_part \o " - " \o _sanitize_filename(descr)
    \o (IF file.number_suffix = NoNumber THEN ""
        ELSE " (" \o IntToStr(file.number_suffix.val) \o ")")
    \o ".png"

\* C9: when its target name is not already taken, a record of the group is
\* renamed to "<prefix> <timestamp> - <sanitized description>", then
\* " (<number>)" only if the record has a number, then ".png", the prefix
\* being the one of the record's own family, whatever the rest of the group.
C9_GroupRenameFormat ==
  \A i \in 1..Len(renames) :
    ~renames[i].taken =>
      /\ renames[i].final_path = ExpectedName(renames[i].file, shared_description)
      /\ results[i].original_path = renames[i].file.path
      /\ renames[i].moved =>
           /\ results[i].success
           /\ results[i].new_path = Some(renames[i].final_path)

\* a group of both families, one record numbered, all renamed to free names
C9_Witness ==
  /\ fpc = "rename"
  /\ todo = <<>>
  /\ \A i \in 1..Len(renames) : ~renames[i].taken /\ renames[i].moved
  /\ \E i, j, k \in 1..Len(renames) :
       /\ IsLegacyRecord(renames[i].file)
       /\ ~IsLegacyRecord(renames[j].file)
       /\ renames[k].file.number_suffix # NoNumber
       /\ renames[i].final_path \in directory
       /\ renames[j].final_path \in directory

\* the names "<stem> (k)<ext>" of a target that ends in ".png"
Numbered(path, k) ==
  TakeFirst(path, Len(path) - 4) \o " (" \o IntToStr(k) \o ").png"

\* what _resolve_conflicts has returned when the move is about to happen
ResolvedFreeAndSmallest ==
  fpc = "move" =>
    /\ ~Exists(final_path, directory)
    /\ IF ~Exists(target, directory)
       THEN final_path = target
       ELSE \E k \in 1..(Cardinality(directory) + 1) :
              /\ final_path = Numbered(target, k)
              /\ \A j \in 1..(k - 1) : Exists(Numbered(target, j), directory)

\* C10: _resolve_conflicts returns a path that does not exist when it is
\* called: the target itself if it is free, otherwise "<stem> (k)<ext>" for
\* the smallest k >= 1 whose name is free; and its loop ends.
C10_ResolveConflicts ==
  /\ []ResolvedFreeAndSmallest
  /\ (fpc = "probe") ~> (fpc = "move")

\* the target and its " (1)" are taken: " (2)" is returned
C10_Witness ==
  /\ fpc = "move"
  /\ Exists(target, directory)
  /\ Exists(Numbered(target, 1), directory)
  /\ final_path = Numbered(target, 2)

(***************************************************************************)
(* The results of the group rename.                                        *)
(***************************************************************************)
\* a rename call is under way
InRenameCall == fpc \in {"rename", "probe", "move"}

\* the group the current call was given
CurrentGroup == groups[gi + 1].files

\* C11: rename_screenshot_group returns exactly one RenameResult per record
\* of the group, in group order: a failed move gives a failure result with
\* the error text and no new path, leaves the file under its original name
\* and does not stop the records after it; a successful result carries the
\* new path.
C11_OneResultPerRecord ==
  InRenameCall =>
    /\ Len(results) + Len(todo) = Len(CurrentGroup)
    /\ Len(renames) = Len(results)
    /\ \A i \in 1..Len(results) :
         /\ results[i].original_path = CurrentGroup[i].path
         /\ IF renames[i].moved
            THEN /\ results[i].success
                 /\ results[i].new_path = Some(renames[i].final_path)
                 /\ results[i].error_message = None
                 /\ Exists(renames[i].final_path, directory)
            ELSE /\ ~results[i].success
                 /\ results[i].new_path = None
                 /\ results[i].error_message.some
                 /\ results[i].error_message.val # ""
                 /\ Exists(CurrentGroup[i].path, directory)

\* a call that returns three results: the move of the first record failed,
\* the two after it were renamed
C11_Witness ==
  /\ fpc = "rename"
  /\ todo = <<>>
  /\ Len(results) = 3
  /\ ~results[1].success
  /\ results[2].success
  /\ results[3].success

(***************************************************************************)
(* The order of the records of a group.                                    *)
(***************************************************************************)
\* grouping has been done
Grouped == fpc \notin {"start", "scanned"}

HasNumber(s) == s.number_suffix # NoNumber

\* the sequence number of a record, an absent one counted as 0
NumberOrZero(s) == IF HasNumber(s) THEN s.number_suffix.val ELSE 0

\* the place of a record in the scan
ScanIndex(s) == CHOOSE i \in 1..Len(screenshots) : screenshots[i] = s

\* C12: in every group, a record without a sequence number comes before
\* every record that has one, for every scan order; so the representative
\* (the first record of the group) is the unnumbered one when there is one.
C12_UnnumberedFirst ==
  Grouped =>
    \A g \in 1..Len(groups) :
      LET files == groups[g].files
      IN /\ \A i, j \in 1..Len(files) :
              (~HasNumber(files[i]) /\ HasNumber(files[j])) => i < j
         /\ (\E i \in 1..Len(files) : ~HasNumber(files[i])) => ~HasNumber(files[1])

\* C13: within each group the records are in ascending order of sequence
\* number, an absent number counted as 0, and records with equal keys keep
\* their scan order; each group holds exactly the scanned records of its
\* timestamp.
C13_StableAscending ==
  Grouped =>
    \A g \in 1..Len(groups) :
      LET files == groups[g].files
      IN /\ \A i, j \in 1..Len(files) :
              i < j =>
                \/ NumberOrZero(files[i]) < NumberOrZero(files[j])
                \/ /\ NumberOrZero(files[i]) = NumberOrZero(files[j])
                   /\ ScanIndex(files[i]) < ScanIndex(files[j])
         /\ {files[i] : i \in 1..Len(files)} =
              {screenshots[k] : k \in {k \in 1..Len(screenshots) :
                                         screenshots[k].timestamp_part = groups[g].timestamp}}

\* scanned as [A (no number), B (2), C (1)], grouped as [A, C, B]
C13_Witness ==
  /\ fpc = "grouped"
  /\ Len(screenshots) = 3
  /\ ~HasNumber(screenshots[1])
  /\ screenshots[2].number_suffix = Some(2)
  /\ screenshots[3].number_suffix = Some(1)
  /\ Len(groups) = 1
  /\ groups[1].files = << screenshots[1], screenshots[3], screenshots[2] >>

(***************************************************************************)
(* The identity of the scanned records.                                    *)
(***************************************************************************)
\* the scan has been done
Scanned == fpc # "start"

SameFamily(a, b) == IsLegacyRecord(a) <=> IsLegacyRecord(b)

\* C14: among the records of one scan, no two distinct files of the same
\* family have the same timestamp and the same sequence number (an absent
\* number being a value of its own); so no two records of a group are given
\* the same target name.
C14_KeyAndNumberIdentify ==
  /\ Scanned =>
       \A i, j \in 1..Len(screenshots) :
         (/\ i # j
          /\ SameFamily(screenshots[i], screenshots[j])
          /\ screenshots[i].timestamp_part = screenshots[j].timestamp_part)
           => screenshots[i].number_suffix # screenshots[j].number_suffix
  /\ Grouped =>
       \A g \in 1..Len(groups), descr \in Descriptions :
         \A i, j \in 1..Len(groups[g].files) :
           i # j => NewName(groups[g].files[i], descr) # NewName(groups[g].files[j], descr)

\* C15: a "Screenshot" file and a "Screen Shot" file are never in the same
\* group, the timestamps extracted for the two families never being equal.
C15_FamiliesNeverShareGroup ==
  /\ Scanned =>
       \A i, j \in 1..Len(screenshots) :
         ~SameFamily(screenshots[i], screenshots[j])
           => screenshots[i].timestamp_part # screenshots[j].timestamp_part
  /\ Grouped =>
       \A g \in 1..Len(groups) :
         \A i, j \in 1..Len(groups[g].files) :
           SameFamily(groups[g].files[i], groups[g].files[j])

(***************************************************************************)
(* _parse_screenshot_filename on file names written from their pieces.     *)
(***************************************************************************)
Prefixes == {"Screenshot", "Screen Shot", "Screen shot"}
Dates == {"2025-06-09", "2022-5-21"}
Hours == {"9", "09", "21", "123"}
Minutes == {"15", "07", "5"}
Seconds == {"24", "4"}
Paddings == {"", "0"}
Extensions == {".png", ".PNG"}

PartsPool ==
  { [prefix |-> p, date |-> d, hour |-> h, minute |-> m, second |-> sec,
     numbered |-> FALSE, number |-> 0, padding |-> "", extension |-> e] :
      p \in Prefixes, d \in Dates, h \in Hours, m \in Minutes, sec \in Seconds,
      e \in Extensions }
  \cup
  { [prefix |-> x[1], date |-> x[2], hour |-> x[3], minute |-> x[4], second |-> x[5],
     numbered |-> TRUE, number |-> x[6], padding |-> x[7], extension |-> x[8]] :
      x \in Prefixes \X Dates \X Hours \X Minutes \X Seconds \X (0..MaxNumber)
              \X Paddings \X Extensions }

\* the timestamp and the name written from the pieces
WrittenTimestamp(q) ==
  q.date \o " at " \o q.hour \o "." \o q.minute \o "." \o q.second

WrittenName(q) ==
  q.prefix \o " " \o WrittenTimestamp(q)
    \o (IF q.numbered THEN " (" \o q.padding \o IntToStr(q.number) \o ")" ELSE "")
    \o q.extension

ParseInit ==
  /\ max_retries = 0
  /\ AnalyzerConstructed
  /\ directory = {}
  /\ FileManagerAt("off")
  /\ upc = "given"
  /\ parts \in PartsPool
  /\ file_name = WrittenName(parts)
  /\ screenshot_info = [some |-> FALSE, val |-> ScreenshotFile("", "", "", NoNumber)]
  /\ given_description = ""
  /\ clean_description = ""
  /\ clean_again = ""
  /\ NoConnectionTest

\* screenshot_info = self._parse_screenshot_filename(file_path.name, file_path)
ParseFilename ==
  /\ upc = "given"
  /\ screenshot_info' = _parse_screenshot_filename(file_name)
  /\ upc' = "parsed"
  /\ UNCHANGED << parts, file_name, given_description, clean_description, clean_again,
                  get_outcome, connection, avars, fvars, svars >>

ParseNext == ParseFilename

ParseSpec == ParseInit /\ [][ParseNext]_vars

\* "<Prefix> <YYYY-MM-DD> at <H or HH>.<MM>.<SS>.png", with " (<N>)" or not
IsDigits(str, n) == Len(str) = n /\ AllDigits(str)

WellFormedDate(date) ==
  /\ Len(date) = 10
  /\ IsDigits(SubSeq(date, 1, 4), 4)
  /\ SubSeq(date, 5, 5) = "-"
  /\ IsDigits(SubSeq(date, 6, 7), 2)
  /\ SubSeq(date, 8, 8) = "-"
  /\ IsDigits(SubSeq(date, 9, 10), 2)

WellFormed(q) ==
  /\ q.prefix \in {"Screenshot", "Screen Shot"}
  /\ WellFormedDate(q.date)
  /\ IsDigits(q.hour, 1) \/ IsDigits(q.hour, 2)
  /\ IsDigits(q.minute, 2)
  /\ IsDigits(q.second, 2)
  /\ q.extension = ".png"

\* the scan keeps the file
Recognized ==
  /\ screenshot_info.some
  /\ _is_screenshot_file(file_name) \/ _is_legacy_screenshot_file(file_name)

\* C16: every file name of either family of the form
\* "<Prefix> <YYYY-MM-DD> at <H or HH>.<MM>.<SS>.png", or the same with
\* " (<N>)" before ".png", is recognized, a one-digit hour included; the
\* sequence number extracted is the integer written in the parentheses and
\* the timestamp extracted does not hold the " (N)".
C16_WellFormedRecognized ==
  (upc = "parsed" /\ WellFormed(parts)) =>
    /\ Recognized
    /\ screenshot_info.val.original_name = file_name
    /\ screenshot_info.val.timestamp_part = WrittenTimestamp(parts)
    /\ screenshot_info.val.number_suffix =
         (IF parts.numbered THEN Some(parts.number) ELSE NoNumber)

\* a legacy name with a one-digit hour and the number written "(011)"
C16_Witness ==
  /\ upc = "parsed"
  /\ WellFormed(parts)
  /\ parts.prefix = "Screen Shot"
  /\ parts.hour = "9"
  /\ parts.numbered
  /\ parts.padding = "0"
  /\ parts.number = MaxNumber
  /\ screenshot_info.val.number_suffix = Some(MaxNumber)

\* C17: a file name whose minute or second does not have exactly two digits
\* matches none of the four patterns and is skipped by the scan.
C17_MinuteSecondTwoDigits ==
  (upc = "parsed" /\ (Len(parts.minute) # 2 \/ Len(parts.second) # 2)) =>
    /\ ~screenshot_info.some
    /\ ~_is_screenshot_file(file_name)
    /\ ~_is_legacy_screenshot_file(file_name)

(***************************************************************************)
(* _sanitize_filename on descriptions written from pieces.                 *)
(***************************************************************************)
LongWord == "abcdefghijklmnopqrstuvwxy"

Pieces ==
  { "Code editor Python file", LongWord, " ", " \t ", SmallNApostrophe \o ":", ".B", "x/" }

\* the descriptions written from n pieces
RECURSIVE Written(_)
Written(n) ==
  IF n = 0 THEN {""} ELSE {d \o q : d \in Written(n - 1), q \in Pieces}

DescriptionPool == UNION {Written(n) : n \in 0..MaxPieces}

SanitizeInit ==
  /\ max_retries = 0
  /\ AnalyzerConstructed
  /\ directory = {}
  /\ FileManagerAt("off")
  /\ upc = "given"
  /\ parts = NoParts
  /\ file_name = ""
  /\ screenshot_info = [some |-> FALSE, val |-> ScreenshotFile("", "", "", NoNumber)]
  /\ given_description \in DescriptionPool
  /\ clean_description = ""
  /\ clean_again = ""
  /\ NoConnectionTest

\* clean_description = self._sanitize_filename(description)
Sanitize ==
  /\ upc = "given"
  /\ clean_description' = _sanitize_filename(given_description)
  /\ upc' = "sanitized"
  /\ UNCHANGED << parts, file_name, screenshot_info, given_description, clean_again,
                  get_outcome, connection, avars, fvars, svars >>

\* the result is sanitized once more
SanitizeAgain ==
  /\ upc = "sanitized"
  /\ clean_again' = _sanitize_filename(clean_description)
  /\ upc' = "resanitized"
  /\ UNCHANGED << parts, file_name, screenshot_info, given_description,
                  clean_description, get_outcome, connection, avars, fvars, svars >>

SanitizeNext == Sanitize \/ SanitizeAgain

SanitizeSpec == SanitizeInit /\ [][SanitizeNext]_vars

\* the description without the removed characters, its whitespace collapsed
\* and trimmed: the cleaned text, before the letter case and the length
CleanedText(d) ==
  Strip(CollapseWhitespace(RemoveChars(d, InvalidChars)), Whitespace)

HasSpace(str) == \E i \in 1..Len(str) : Char(str, i) = " "

\* a word without its letter case
WithoutCase(w) == Lower(Capitalize(w))

\* C18: _sanitize_filename is idempotent: sanitize(sanitize(x)) = sanitize(x).
C18_SanitizeIdempotent ==
  upc = "resanitized" => clean_again = clean_description

ForbiddenChars == {"<", ">", ":", "\"", "/", "\\", "|", "?", "*", "."}

\* C19: the result of _sanitize_filename has at most 50 characters, none of
\* the characters < > : " / \ | ? * . , no leading or trailing space and no
\* two spaces in a row; when the cleaned text is longer than 50 characters
\* and its first 50 hold a space, the result ends at the end of a whole word
\* of the cleaned text.
C19_SanitizedShape ==
  upc = "sanitized" =>
    LET c == clean_description
        t == CleanedText(given_description)
    IN /\ Len(c) <= 50
       /\ \A i \in 1..Len(c) : Char(c, i) \notin ForbiddenChars
       /\ c # "" => (Char(c, 1) # " " /\ Char(c, Len(c)) # " ")
       /\ \A i \in 1..(Len(c) - 1) : ~(Char(c, i) = " " /\ Char(c, i + 1) = " ")
       /\ (Len(t) > 50 /\ HasSpace(SubSeq(t, 1, 50))) =>
            /\ Split(c) # <<>>
            /\ Len(Split(c)) < Len(Split(t))
            /\ \A i \in 1..Len(Split(c)) :
                 WithoutCase(Split(c)[i]) = WithoutCase(Split(t)[i])

\* the 51st character of the cleaned text is inside a word: the result is
\* cut back to the word before it
C19_Witness ==
  /\ upc = "sanitized"
  /\ LET t == CleanedText(given_description)
     IN /\ Len(t) > MaxLength
        /\ HasSpace(SubSeq(t, 1, MaxLength))
        /\ Char(t, MaxLength) # " "
        /\ Char(t, MaxLength + 1) # " "
        /\ Len(t) < Len(given_description)
        /\ clean_description # ""
        /\ Len(clean_description) < MaxLength

\* C20: _sanitize_filename changes the letter case of the first character
\* only: every character after the first is as it was in the description.
C20_OnlyFirstCharacterCased ==
  upc = "sanitized" =>
    \A i \in 2..Len(clean_description) :
      /\ i <= Len(CleanedText(given_description))
      /\ Char(clean_description, i) = Char(CleanedText(given_description), i)

(***************************************************************************)
(* The callbacks of the cost tracker.                                      *)
(***************************************************************************)
Tracks == SelectSeq(log, IsTrack)

IsSuccessTrack(e) == IsTrack(e) /\ e.ok
IsFailureTrack(e) == IsTrack(e) /\ ~e.ok

\* C25: the cost tracker receives exactly one track_request callback per
\* request attempt of analyze_screenshot: a call with k failed attempts and
\* then a successful one gives k failure callbacks and one success callback.
C25_OneCallbackPerAttempt ==
  Done =>
    /\ Len(Tracks) = Len(Posts)
    /\ Result.success =>
         /\ Len(SelectSeq(log, IsSuccessTrack)) = 1
         /\ Len(SelectSeq(log, IsFailureTrack)) = Len(Posts) - 1

(***************************************************************************)
(* VisionAnalyzer.test_connection: one GET of the models endpoint.          *)
(* The three marks the messages start with are outside ASCII and are       *)
(* written "[ok] ", "[warn] " and "[fail] ".                               *)
(***************************************************************************)
\* api_config.model
ConfiguredModel == "gpt-4-vision-preview"

\* session.get raises e
GetRaises(e) ==
  [raised |-> TRUE, exc |-> e, status |-> 0, body |-> "", json_ok |-> FALSE, models |-> <<>>]

\* session.get returns a response: its status code, the message of its error
\* body, whether response.json() gives the models listing, and the ids listed
GetReturns(status, body, json_ok, models) ==
  [raised |-> FALSE, exc |-> Exc("", 0, "", ""), status |-> status, body |-> body,
   json_ok |-> json_ok, models |-> models]

StatusCodes == {400, 401, 403, 404, 418, 422, 429, 500, 502, 503, 504}

ErrorBodies ==
  {"", "Incorrect API key provided", "You exceeded your current quota",
   "The model does not exist", "Request failed: try again"}

ModelListings ==
  { <<>>, << "gpt-4" >>, << ConfiguredModel >>, << "gpt-4", ConfiguredModel, "gpt-3.5-turbo" >>,
    << "a", "b", "c", "d", "e", "f" >> }

GetOutcomes ==
  {GetReturns(c, b, FALSE, <<>>) : c \in StatusCodes, b \in ErrorBodies}
  \cup {GetReturns(200, "", TRUE, ms) : ms \in ModelListings}
  \cup {GetReturns(200, "", FALSE, <<>>)}
  \cup {GetRaises(FailingOutcomes[i].exc) : i \in 1..Len(FailingOutcomes)}
  \cup {GetRaises(Exc("HTTPError", c, b, "HTTP error")) : c \in StatusCodes, b \in ErrorBodies}
  \cup {GetRaises(Exc(cls, 0, "", "Request failed: no route to host")) :
          cls \in RequestExceptionClasses}

\* s.replace(old, '')
RECURSIVE RemoveAll(_, _)
RemoveAll(str, old) ==
  LET at == FindFrom(str, old, 1)
  IN IF old = "" \/ at = 0 THEN str
     ELSE TakeFirst(str, at - 1) \o RemoveAll(DropFirst(str, at + Len(old) - 1), old)

ConnectionFailed == "[fail] API connection failed: "

\* the explanation of a non-200 answer: of a new RequestException("HTTP <code>"),
\* which carries no response
NonOkStatusExplained(response) ==
  RemoveAll(_analyze_api_error(Exc("RequestException", 0, "",
                                   "HTTP " \o IntToStr(response.status))),
            "Request failed: ")

\* VisionAnalyzer.test_connection: (ok, message)
test_connection(outcome) ==
  IF outcome.raised
  THEN IF IsRequestException(outcome.exc)
       THEN [ok |-> FALSE, message |-> ConnectionFailed \o _analyze_api_error(outcome.exc)]
       ELSE [ok |-> FALSE,
             message |-> "[fail] Unexpected error testing API connection: " \o outcome.exc.text]
  ELSE IF outcome.status = 200
  THEN IF ~outcome.json_ok
       THEN [ok |-> TRUE,
             message |-> "[ok] API connection successful (couldn't verify model availability)."]
       ELSE IF \E i \in 1..Len(outcome.models) : outcome.models[i] = ConfiguredModel
       THEN [ok |-> TRUE,
             message |-> "[ok] API connection successful. Model '" \o ConfiguredModel
                           \o "' is available."]
       ELSE [ok |-> FALSE,
             message |-> "[warn] API connection successful, but model '" \o ConfiguredModel
                           \o "' is not available. Available models include: "
                           \o Join(", ", SubSeq(outcome.models, 1,
                                                IF Len(outcome.models) < 5
                                                THEN Len(outcome.models) ELSE 5))
                           \o "..."]
  ELSE [ok |-> FALSE, message |-> ConnectionFailed \o NonOkStatusExplained(outcome)]

ConnectionInit ==
  /\ max_retries = 0
  /\ AnalyzerConstructed
  /\ directory = {}
  /\ FileManagerAt("off")
  /\ upc = "given"
  /\ parts = NoParts
  /\ file_name = ""
  /\ screenshot_info = [some |-> FALSE, val |-> ScreenshotFile("", "", "", NoNumber)]
  /\ given_description = ""
  /\ clean_description = ""
  /\ clean_again = ""
  /\ get_outcome \in GetOutcomes
  /\ connection = [ok |-> FALSE, message |-> ""]

\* connection_ok, connection_message = self.vision_analyzer.test_connection()
TestConnection ==
  /\ upc = "given"
  /\ connection' = test_connection(get_outcome)
  /\ upc' = "tested"
  /\ UNCHANGED << parts, file_name, screenshot_info, given_description, clean_description,
                  clean_again, get_outcome, avars, fvars, svars >>

ConnectionNext == TestConnection

ConnectionSpec == ConnectionInit /\ [][ConnectionNext]_vars

\* C26: test_connection explains a failure as the analysis path does: when
\* the models endpoint answers with a non-200 status, it returns a failure
\* whose message is the explanation of that status code, the same as when
\* the transport raises an error that carries that response.
C26_StatusExplainedAsRaised ==
  (upc = "tested" /\ ~get_outcome.raised /\ get_outcome.status # 200) =>
    /\ ~connection.ok
    /\ connection =
         test_connection(GetRaises(Exc("HTTPError", get_outcome.status, get_outcome.body,
                                       "HTTP " \o IntToStr(get_outcome.status))))

\* C30: every description analyze_screenshot returns with success has a
\* non-empty sanitized form, so no file is renamed to a name whose
\* description part is empty ("<prefix> <timestamp> - .png").
C30_SanitizedDescriptionNonEmpty ==
  (Done /\ Result.success) => _sanitize_filename(Result.description.val) # ""

(***************************************************************************)
(* The conflict check and the move, with and without another agent.        *)
(***************************************************************************)
\* another agent creates the file _resolve_conflicts has just found free,
\* before screenshot.path.rename(final_path) runs
ExternalCreate ==
  /\ fpc = "move"
  /\ ~Exists(final_path, directory)
  /\ directory' = directory \cup {final_path}
  /\ external' = TRUE
  /\ UNCHANGED << fpc, screenshots, groups, gi, shared_description, todo, results, target,
                  counter, final_path, renames, form, passes, moves, initial_directory,
                  avars, uvars, svars >>

RaceNext ==
  \/ RenameNext
  \/ ExternalCreate

RaceSpec == RenameInit /\ [][RaceNext]_vars

\* C27: the conflict check and the move are two steps. The move is made onto
\* a path that exists only if another agent has created that path since the
\* check: with no external modification the path moved onto is free.
C27_MoveOntoExistingOnlyAfterExternalChange ==
  (fpc = "move" /\ final_path \in directory) => external

\* the target was free at the check, another agent created it, and the
\* move was still made: onto the existing path (the file there is replaced)
C27_Witness ==
  /\ external
  /\ renames # <<>>
  /\ LET last == renames[Len(renames)]
     IN /\ last.moved
        /\ ~last.taken
        /\ last.final_path = last.new_path
        /\ Cardinality(directory) = Cardinality(initial_directory)
        /\ moves # <<>> /\ moves[Len(moves)].to = last.final_path

(***************************************************************************)
(* Both forms of rename, over several passes, with no other agent.         *)
(***************************************************************************)
\* rename_file is called for a record of the scan, with a description;
\* its caller, _process_single_screenshot, has validated the file's access
RenameFileCall(i, descr) ==
  /\ fpc = "grouped"
  /\ i \in 1..Len(screenshots)
  /\ Exists(screenshots[i].path, directory)
  /\ shared_description' = descr
  /\ todo' = << screenshots[i] >>
  /\ results' = <<>>
  /\ renames' = <<>>
  /\ form' = "single"
  /\ fpc' = "rename"
  /\ UNCHANGED << directory, screenshots, groups, gi, target, counter, final_path,
                  passes, moves, initial_directory, external, avars, uvars, svars >>

\* rename_file returns its result
RenameFileReturn ==
  /\ fpc = "rename"
  /\ form = "single"
  /\ todo = <<>>
  /\ fpc' = "grouped"
  /\ UNCHANGED << directory, screenshots, groups, gi, shared_description, todo, results,
                  target, counter, final_path, renames, hvars, avars, uvars, svars >>

\* the pass is through with its groups; the next pass starts with a new scan
NextPass ==
  /\ fpc = "grouped"
  /\ gi = Len(groups)
  /\ passes < MaxPasses
  /\ fpc' = "start"
  /\ UNCHANGED << directory, screenshots, groups, gi, shared_description, todo, results,
                  target, counter, final_path, renames, hvars, avars, uvars, svars >>

\* the description the analysis gives in these passes
PassDescription == "Video call"

HousekeepNext ==
  \/ Scan
  \/ Group
  \/ RenameGroupCall(PassDescription)
  \/ BeginRename
  \/ Probe
  \/ MoveSucceeds
  \/ MoveFails
  \/ RenameGroupReturn
  \/ \E i \in 1..MaxFiles : RenameFileCall(i, PassDescription)
  \/ RenameFileReturn
  \/ NextPass

\* the files of the directory these passes start from: screenshots of one
\* moment, one of another moment, and a file that carries the description
\* already
HousekeepPool ==
  { "Screenshot " \o Timestamp1 \o ".png",
    "Screenshot " \o Timestamp1 \o " (1).png",
    "Screen Shot " \o Timestamp2 \o ".png",
    "Screenshot " \o Timestamp1 \o " - Video call.png" }

HousekeepInit ==
  /\ max_retries = 0
  /\ AnalyzerConstructed
  /\ directory \in {d \in SUBSET HousekeepPool : Cardinality(d) <= MaxFiles}
  /\ FileManagerAt("start")
  /\ UnitAt("off")

HousekeepSpec == HousekeepInit /\ [][HousekeepNext]_vars

\* the final paths of the moves that succeeded
FinalPaths == {moves[i].to : i \in 1..Len(moves)}

\* C28: with no other agent, no rename of either form moves a file onto a
\* path that exists: the move is made onto a free path, the directory holds
\* as many files as at the start, and the new paths of the successful
\* renames are pairwise distinct.
C28_NoMoveOntoExistingPath ==
  /\ fpc = "move" => ~Exists(final_path, directory)
  /\ Cardinality(directory) = Cardinality(initial_directory)
  /\ \A i, j \in 1..Len(moves) : moves[i].to = moves[j].to => i = j
  /\ \A i, j \in 1..Len(results) :
       (results[i].success /\ results[j].success /\ results[i].new_path = results[j].new_path)
         => i = j

\* renames of both forms have succeeded, one of them onto a path that
\* _resolve_conflicts had to number because the first choice existed
C28_Witness ==
  /\ \E i, j \in 1..Len(moves) : i # j
  /\ form = "single"
  /\ renames # <<>>
  /\ renames[Len(renames)].moved
  /\ renames[Len(renames)].taken
  /\ renames[Len(renames)].final_path \in directory

\* C29: a file that was renamed, in either form and with or without a
\* conflict suffix, is never recognized as a screenshot again: no scan
\* returns it and no later pass renames it.
C29_RenamedNeverRecognizedAgain ==
  /\ \A p \in FinalPaths : ~_parse_screenshot_filename(p).some
  /\ \A i \in 1..Len(screenshots) :
       \A j \in 1..Len(moves) :
         moves[j].pass < passes => screenshots[i].path # moves[j].to
  /\ \A i, j \in 1..Len(moves) : i < j => moves[j].from # moves[i].to

\* the second pass has scanned a directory that holds files the first pass
\* renamed, one of them with a conflict suffix, and has renamed another file
C29_Witness ==
  /\ passes = 2
  /\ \E i, j \in 1..Len(moves) :
       /\ moves[i].pass = 1
       /\ moves[j].pass = 2
       /\ moves[i].to \in directory
  /\ \E i \in 1..Len(moves) :
       /\ moves[i].pass = 1
       /\ moves[i].from = "Screenshot " \o Timestamp1 \o ".png"
       /\ moves[i].to = "Screenshot " \o Timestamp1 \o " - Video call (1).png"

(***************************************************************************)
(* ScreenshotRenamer.process_all_screenshots: the scan, then per group the *)
(* validation, the analysis of the representative and the group rename,    *)
(* with the session log, the summary and the log file.  The amounts of     *)
(* money and the times of the entries are left out of their texts.         *)
(***************************************************************************)
\* the session header of ActionLogger._initialize_session
SessionHeader == "Screenshot Renaming Session"

\* ActionLogger.log_error: the entry, and the error kept for the summary
LogError(entries, message) == Append(entries, "[ERROR] ERROR: " \o message)

\* the message of ActionLogger.log_analysis_result
AnalysisMessage(filename, result) ==
  IF result.success
  THEN "Generated description for " \o filename \o ": '" \o result.description.val \o "'"
         \o (IF result.retry_count > 0
             THEN " (after " \o IntToStr(result.retry_count) \o " retries)" ELSE "")
  ELSE "Failed to analyze " \o filename \o ": " \o result.error_message.val
         \o (IF result.error_details.some
             THEN "\n    Details: " \o result.error_details.val ELSE "")

\* the error log_analysis_result keeps for the summary
AnalysisError(filename, result) ==
  "Analysis failed for " \o filename \o ": " \o result.error_message.val
    \o (IF result.error_details.some THEN " | " \o result.error_details.val ELSE "")

\* the message of ActionLogger.log_rename_result; path.name is the path here
RenameMessage(result) ==
  IF result.success
  THEN "Renamed: " \o result.original_path \o " -> " \o result.new_path.val
  ELSE "Failed to rename " \o result.original_path \o ": " \o result.error_message.val

\* processed_files when the pass is through with k groups
RECURSIVE ProcessedFiles(_, _)
ProcessedFiles(gs, k) ==
  IF k = 0 THEN 0 ELSE ProcessedFiles(gs, k - 1) + Len(gs[k].files)

\* the loop over rename_results: log_rename_result, and log_progress after
\* every fifth file and after the last one
RECURSIVE RenameEntries(_, _, _)
RenameEntries(rs, processed, total) ==
  IF rs = <<>> THEN <<>>
  ELSE << "[RENAME] " \o RenameMessage(Head(rs)) >>
         \o (IF (processed + 1) % 5 = 0 \/ processed + 1 = total
             THEN << "[PROGRESS] Progress: " \o IntToStr(processed + 1) \o "/"
                       \o IntToStr(total) >>
             ELSE <<>>)
         \o RenameEntries(Tail(rs), processed + 1, total)

\* the summary after the loop over rename_results
RECURSIVE RenameCounted(_, _)
RenameCounted(sm, rs) ==
  IF rs = <<>> THEN sm
  ELSE RenameCounted(
         IF Head(rs).success
         THEN [sm EXCEPT !.successful_renames = @ + 1]
         ELSE [sm EXCEPT !.failed_renames = @ + 1,
                         !.errors = Append(@, "Rename failed for " \o Head(rs).original_path
                                                \o ": " \o Head(rs).error_message.val)],
         Tail(rs))

\* cost_calculator.actual_costs once track_request has run for the entries
\* of the analyzer's log
RECURSIVE Tracked(_, _)
Tracked(costs, events) ==
  IF events = <<>> THEN costs
  ELSE Tracked(
         IF ~IsTrack(Head(events)) THEN costs
         ELSE IF Head(events).ok
         THEN [costs EXCEPT !.successful_requests = @ + 1]
         ELSE [costs EXCEPT !.failed_requests = @ + 1],
         Tail(events))

\* log_actual_costs, then generate_summary: the two closing entries
Closing(entries, sm, costs) ==
  entries
    \o << "[ACTUAL_COSTS] successful_requests=" \o IntToStr(costs.successful_requests)
            \o " failed_requests=" \o IntToStr(costs.failed_requests),
          "[SUMMARY] Total files found: " \o IntToStr(sm.total_files)
            \o " Successful renames: " \o IntToStr(sm.successful_renames)
            \o " Failed renames: " \o IntToStr(sm.failed_renames)
            \o " API failures: " \o IntToStr(sm.api_failures)
            \o " Errors: " \o IntToStr(Len(sm.errors)) >>

\* an entry of steps
Step(ev, group, file, ok, text, entries) ==
  [ev |-> ev, group |-> group, file |-> file, ok |-> ok, text |-> text, entries |-> entries]

\* the outcomes of the transport the passes meet: a request that raises,
\* one that is answered with a description, one that is answered with a refusal
DescribedOutcome ==
  CHOOSE n \in 1..Len(Transport) :
    ~Requested[n].raised /\ ResponseUsable(Requested[n].json) /\ Described[n].some

PassOutcomes ==
  { CHOOSE n \in 1..Len(Transport) : Requested[n].raised,
    DescribedOutcome,
    CHOOSE n \in 1..Len(Transport) :
      ~Requested[n].raised /\ ResponseUsable(Requested[n].json) /\ ~Described[n].some }

\* the files of the directory the pass starts from: screenshots of two
\* moments, and a file that carries the description the analysis will give
PassPool ==
  { "Screenshot " \o Timestamp1 \o ".png",
    "Screenshot " \o Timestamp1 \o " (1).png",
    "Screen Shot " \o Timestamp2 \o ".png",
    "Screenshot " \o Timestamp1 \o " - "
      \o _sanitize_filename(Described[DescribedOutcome].val) \o ".png" }

\* scan_screenshots has found no screenshot: the first return
NothingFound ==
  /\ fpc = "scanned"
  /\ screenshots = <<>>
  /\ session_log' = Closing(Append(session_log, "[SCAN] Found 0 screenshot files to process"),
                            summary, actual_costs)
  /\ fpc' = "returned"
  /\ UNCHANGED << directory, screenshots, groups, gi, shared_description, todo, results,
                  target, counter, final_path, renames, hvars, summary, actual_costs,
                  log_file, steps, interrupted_at, avars, uvars >>

\* log_scan_results, group_screenshots_by_timestamp, the cost estimate, and
\* the grouping _process_screenshots_batch starts with
GroupAndEstimate ==
  /\ fpc = "scanned"
  /\ screenshots # <<>>
  /\ session_log' = session_log
       \o << "[SCAN] Found " \o IntToStr(Len(screenshots)) \o " screenshot files to process",
             "[COST_ESTIMATE] images="
               \o IntToStr(Len(group_screenshots_by_timestamp(screenshots))) >>
  /\ summary' = [summary EXCEPT !.total_files = Len(screenshots)]
  /\ groups' = group_screenshots_by_timestamp(screenshots)
  /\ gi' = 0
  /\ fpc' = "grouped"
  /\ UNCHANGED << directory, screenshots, shared_description, todo, results, target,
                  counter, final_path, renames, hvars, actual_costs, log_file, steps,
                  interrupted_at, avars, uvars >>

\* the group the batch is at, and its first record
ThisGroup == groups[gi + 1]
Representative == ThisGroup.files[1]

\* validate_file_access(representative_screenshot.path) returns False
ValidationFails ==
  /\ fpc = "grouped"
  /\ gi < Len(groups)
  /\ session_log' = LogError(session_log, "Cannot access representative file: "
                                            \o Representative.original_name)
  /\ summary' = [summary EXCEPT
                   !.errors = Append(@, "ERROR: Cannot access representative file: "
                                          \o Representative.original_name)]
  /\ steps' = Append(steps, Step("validate", gi + 1, Representative.path, FALSE, "", <<>>))
  /\ gi' = gi + 1
  /\ UNCHANGED << directory, fpc, screenshots, groups, shared_description, todo, results,
                  target, counter, final_path, renames, hvars, actual_costs, log_file,
                  interrupted_at, avars, uvars >>

\* (the mutant asks for the analysis before it validates the access)
ValidationPassesAfterCall ==
  /\ fpc = "grouped"
  /\ gi < Len(groups)
  /\ session_log' = Append(session_log, "[ANALYSIS] Analyzing: " \o Representative.original_name)
  /\ steps' = steps
       \o << Step("analyze", gi + 1, Representative.path, TRUE, "", <<>>),
             Step("validate", gi + 1, Representative.path, TRUE, "", <<>>) >>
  /\ pc' = "loop"
  /\ retry_count' = 0
  /\ last_errors' = <<>>
  /\ returned' = <<>>
  /\ log' = <<>>
  /\ fpc' = "analyze"
  /\ UNCHANGED << max_retries, directory, screenshots, groups, gi, shared_description, todo,
                  results, target, counter, final_path, renames, hvars, summary,
                  actual_costs, log_file, interrupted_at, uvars >>

\* validate_file_access returns True; log_analysis_start, and the entry of
\* analyze_screenshot(representative_screenshot.path)
ValidationPasses ==
  /\ fpc = "grouped"
  /\ gi < Len(groups)
  /\ session_log' = Append(session_log, "[ANALYSIS] Analyzing: " \o Representative.original_name)
  /\ steps' = steps
       \o << Step("validate", gi + 1, Representative.path, TRUE, "", <<>>),
             Step("analyze", gi + 1, Representative.path, TRUE, "", <<>>) >>
  /\ pc' = "loop"
  /\ retry_count' = 0
  /\ last_errors' = <<>>
  /\ returned' = <<>>
  /\ log' = <<>>
  /\ fpc' = "analyze"
  /\ UNCHANGED << max_retries, directory, screenshots, groups, gi, shared_description, todo,
                  results, target, counter, final_path, renames, hvars, summary,
                  actual_costs, log_file, interrupted_at, uvars >>

\* analyze_screenshot has returned a failure: log_analysis_result, log_error,
\* and `continue`
AnalysisFailed ==
  /\ fpc = "analyze"
  /\ Done
  /\ ~Result.success
  /\ session_log' = LogError(
       Append(session_log, "[ANALYSIS] " \o AnalysisMessage(Representative.original_name, Result)),
       "Analysis failed for group " \o ThisGroup.timestamp \o ", skipping all "
         \o IntToStr(Len(ThisGroup.files)) \o " files")
  /\ summary' = [summary EXCEPT
       !.api_failures = @ + 1,
       !.errors = @ \o << AnalysisError(Representative.original_name, Result),
                          "ERROR: Analysis failed for group " \o ThisGroup.timestamp
                            \o ", skipping all " \o IntToStr(Len(ThisGroup.files))
                            \o " files" >>]
  /\ actual_costs' = Tracked(actual_costs, log)
  /\ steps' = Append(steps, Step("analyzed", gi + 1, Representative.path, FALSE,
                                 Result.error_message.val, <<>>))
  /\ gi' = gi + 1
  /\ fpc' = "grouped"
  /\ UNCHANGED << directory, screenshots, groups, shared_description, todo, results,
                  target, counter, final_path, renames, hvars, log_file, interrupted_at,
                  avars, uvars >>

\* (the mutant renames the group although the analysis failed)
AnalysisSucceededOrNot ==
  /\ fpc = "analyze"
  /\ Done
  /\ session_log' =
       Append(session_log, "[ANALYSIS] " \o AnalysisMessage(Representative.original_name, Result))
  /\ actual_costs' = Tracked(actual_costs, log)
  /\ steps' = steps
       \o << Step("analyzed", gi + 1, Representative.path, Result.success, "", <<>>),
             Step("rename", gi + 1, "", TRUE, "Video call", <<>>) >>
  /\ shared_description' = "Video call"
  /\ todo' = ThisGroup.files
  /\ results' = <<>>
  /\ renames' = <<>>
  /\ form' = "group"
  /\ fpc' = "rename"
  /\ UNCHANGED << directory, screenshots, groups, gi, target, counter, final_path,
                  passes, moves, initial_directory, external, summary, log_file,
                  interrupted_at, avars, uvars >>

\* analyze_screenshot has returned a description: log_analysis_result, and
\* the entry of rename_screenshot_group(group_screenshots, description)
AnalysisSucceeded ==
  /\ fpc = "analyze"
  /\ Done
  /\ Result.success
  /\ session_log' =
       Append(session_log, "[ANALYSIS] " \o AnalysisMessage(Representative.original_name, Result))
  /\ actual_costs' = Tracked(actual_costs, log)
  /\ steps' = steps
       \o << Step("analyzed", gi + 1, Representative.path, TRUE, Result.description.val, <<>>),
             Step("rename", gi + 1, "", TRUE, Result.description.val, <<>>) >>
  /\ shared_description' = Result.description.val
  /\ todo' = ThisGroup.files
  /\ results' = <<>>
  /\ renames' = <<>>
  /\ form' = "group"
  /\ fpc' = "rename"
  /\ UNCHANGED << directory, screenshots, groups, gi, target, counter, final_path,
                  passes, moves, initial_directory, external, summary, log_file,
                  interrupted_at, avars, uvars >>

\* rename_screenshot_group has returned: the loop over its results, then the
\* pause if this was not the last group
GroupRenamed ==
  /\ fpc = "rename"
  /\ todo = <<>>
  /\ session_log' = session_log
       \o RenameEntries(results, ProcessedFiles(groups, gi), Len(screenshots))
  /\ summary' = RenameCounted(summary, results)
  /\ steps' = Append(steps, Step("renamed", gi + 1, "", TRUE, shared_description, renames))
  /\ gi' = gi + 1
  /\ fpc' = IF gi + 1 < Len(groups) THEN "pause" ELSE "grouped"
  /\ UNCHANGED << directory, screenshots, groups, shared_description, todo, results,
                  target, counter, final_path, renames, hvars, actual_costs, log_file,
                  interrupted_at, avars, uvars >>

\* time.sleep(1) between two groups
Pause ==
  /\ fpc = "pause"
  /\ fpc' = "grouped"
  /\ UNCHANGED << directory, screenshots, groups, gi, shared_description, todo, results,
                  target, counter, final_path, renames, hvars, svars, avars, uvars >>

\* the batch is through: log_actual_costs, generate_summary, save_log, return
Finish ==
  /\ fpc = "grouped"
  /\ gi = Len(groups)
  /\ session_log' = Closing(session_log, summary, actual_costs)
  /\ log_file' = Append(log_file, session_log')
  /\ fpc' = "returned"
  /\ UNCHANGED << directory, screenshots, groups, gi, shared_description, todo, results,
                  target, counter, final_path, renames, hvars, summary, actual_costs,
                  steps, interrupted_at, avars, uvars >>

\* the costs at an interrupt: track_request has run for the tracks of a
\* call that is under way
CostsNow == IF fpc = "analyze" THEN Tracked(actual_costs, log) ELSE actual_costs

\* (the mutant handler returns the summary without save_log)
InterruptNotSaved ==
  /\ fpc \in {"scanned", "grouped", "analyze", "rename", "probe", "move", "pause"}
  /\ interrupted_at' = fpc
  /\ summary' = [summary EXCEPT !.errors = Append(@, "ERROR: Operation cancelled by user")]
  /\ actual_costs' = CostsNow
  /\ session_log' = Closing(LogError(session_log, "Operation cancelled by user"),
                            summary', actual_costs')
  /\ fpc' = "returned"
  /\ UNCHANGED << directory, screenshots, groups, gi, shared_description, todo, results,
                  target, counter, final_path, renames, hvars, log_file, steps, avars, uvars >>

\* a KeyboardInterrupt arrives after the scan: nothing below the top level
\* catches it; `except KeyboardInterrupt` logs the error and the costs,
\* generates the summary and saves the log
Interrupt ==
  /\ fpc \in {"scanned", "grouped", "analyze", "rename", "probe", "move", "pause"}
  /\ interrupted_at' = fpc
  /\ summary' = [summary EXCEPT !.errors = Append(@, "ERROR: Operation cancelled by user")]
  /\ actual_costs' = CostsNow
  /\ session_log' = Closing(LogError(session_log, "Operation cancelled by user"),
                            summary', actual_costs')
  /\ log_file' = Append(log_file, session_log')
  /\ fpc' = "returned"
  /\ UNCHANGED << directory, screenshots, groups, gi, shared_description, todo, results,
                  target, counter, final_path, renames, hvars, steps, avars, uvars >>

PassInit ==
  /\ max_retries = 1
  /\ AnalyzerConstructed
  /\ directory \in {d \in SUBSET PassPool : Cardinality(d) <= MaxFiles}
  /\ fpc = "start"
  /\ screenshots = <<>>
  /\ groups = <<>>
  /\ gi = 0
  /\ shared_description = ""
  /\ todo = <<>>
  /\ results = <<>>
  /\ target = ""
  /\ counter = 0
  /\ final_path = ""
  /\ renames = <<>>
  /\ form = "group"
  /\ passes = 0
  /\ moves = <<>>
  /\ initial_directory = directory
  /\ external = FALSE
  /\ UnitAt("off")
  /\ session_log = << SessionHeader >>
  /\ summary = [total_files |-> 0, successful_renames |-> 0, failed_renames |-> 0,
                api_failures |-> 0, errors |-> <<>>]
  /\ actual_costs = [successful_requests |-> 0, failed_requests |-> 0]
  /\ log_file = <<>>
  /\ steps = <<>>
  /\ interrupted_at = ""

PassNext ==
  \/ Scan
  \/ NothingFound
  \/ GroupAndEstimate
  \/ ValidationFails
  \/ ValidationPasses
  \/ fpc = "analyze" /\ IterationPrepareFailed
  \/ \E n \in PassOutcomes : fpc = "analyze" /\ IterationRaised(n)
  \/ \E n \in PassOutcomes : fpc = "analyze" /\ IterationResponded(n)
  \/ fpc = "analyze" /\ Exhausted
  \/ AnalysisFailed
  \/ AnalysisSucceeded
  \/ BeginRename
  \/ Probe
  \/ MoveSucceeds
  \/ MoveFails
  \/ GroupRenamed
  \/ Pause
  \/ Finish
  \/ Interrupt

PassSpec == PassInit /\ [][PassNext]_vars

(***************************************************************************)
(* The batch pass: validation, analysis and rename per group.              *)
(***************************************************************************)
StepsOf(ev, g) == {i \in 1..Len(steps) : steps[i].ev = ev /\ steps[i].group = g}

PathsOf(g) == {groups[g].files[k].path : k \in 1..Len(groups[g].files)}

MovesOf(g) == {i \in 1..Len(moves) : moves[i].group = g}

\* C21: in the batch pass the access of a group's representative is
\* validated before any analysis request for the group; if the validation
\* fails, no request is sent for the group, none of its files is renamed,
\* and the pass goes on with the next group.
C21_ValidationBeforeAnalysis ==
  /\ \A i \in 1..Len(steps) :
       steps[i].ev = "analyze" =>
         /\ i > 1
         /\ steps[i - 1].ev = "validate"
         /\ steps[i - 1].ok
         /\ steps[i - 1].group = steps[i].group
         /\ steps[i - 1].file = steps[i].file
  /\ (fpc = "analyze" /\ Posts # <<>>) => StepsOf("analyze", gi + 1) # {}
  /\ \A i \in 1..Len(steps) :
       (steps[i].ev = "validate" /\ ~steps[i].ok) =>
         LET g == steps[i].group
         IN /\ steps[i].file = groups[g].files[1].path
            /\ StepsOf("analyze", g) = {}
            /\ StepsOf("rename", g) = {}
            /\ MovesOf(g) = {}
            /\ PathsOf(g) \subseteq directory
            /\ gi >= g
            /\ i < Len(steps) => (steps[i + 1].ev = "validate" /\ steps[i + 1].group = g + 1)

\* the validation of the first group's representative failed, and the pass
\* went on: the second group was validated, analyzed and renamed
C21_Witness ==
  /\ Len(steps) >= 2
  /\ steps[1].ev = "validate" /\ ~steps[1].ok /\ steps[1].group = 1
  /\ StepsOf("renamed", 2) # {}
  /\ MovesOf(2) # {}
  /\ MovesOf(1) = {}
  /\ fpc = "returned"
  /\ interrupted_at = ""

\* C22: analyze_screenshot is called at most once per group, on the group's
\* first record; if it succeeds, every record of the group gets a rename
\* attempt with that one description; if it fails, no file of the group is
\* renamed; the files of the other groups are not touched by a group's
\* processing.
C22_OneAnalysisPerGroup ==
  /\ \A g \in 1..Len(groups) :
       /\ Cardinality(StepsOf("analyze", g)) <= 1
       /\ \A i \in StepsOf("analyze", g) : steps[i].file = groups[g].files[1].path
       /\ \A i \in StepsOf("analyzed", g) :
            IF steps[i].ok
            THEN /\ i < Len(steps)
                 /\ steps[i + 1].ev = "rename"
                 /\ steps[i + 1].group = g
                 /\ steps[i + 1].text = steps[i].text
                 /\ gi >= g => StepsOf("renamed", g) # {}
            ELSE /\ StepsOf("rename", g) = {}
                 /\ MovesOf(g) = {}
                 /\ PathsOf(g) \subseteq directory
       /\ \A i \in StepsOf("renamed", g) :
            /\ Len(steps[i].entries) = Len(groups[g].files)
            /\ \A k \in 1..Len(groups[g].files) :
                 /\ steps[i].entries[k].file = groups[g].files[k]
                 /\ steps[i].entries[k].new_path = NewName(groups[g].files[k], steps[i].text)
            /\ \E j \in StepsOf("analyzed", g) : steps[j].ok /\ steps[j].text = steps[i].text
  /\ \A i \in 1..Len(moves) :
       /\ moves[i].group \in 1..Len(groups)
       /\ moves[i].from \in PathsOf(moves[i].group)
  /\ \A g \in 1..Len(groups) :
       (MovesOf(g) = {} /\ g > gi + 1) => PathsOf(g) \subseteq directory

\* the analysis of the first group succeeded and both its files were
\* renamed with the one description while the file of the second group
\* stayed; then the analysis of the second group failed
C22_Witness ==
  /\ Len(groups) = 2
  /\ Len(groups[1].files) = 2
  /\ Cardinality(MovesOf(1)) = 2
  /\ \E i \in StepsOf("renamed", 1) :
       steps[i].entries[1].new_path # steps[i].entries[2].new_path
  /\ \E i \in StepsOf("analyzed", 2) : ~steps[i].ok
  /\ PathsOf(2) \subseteq directory
  /\ gi = 2

(***************************************************************************)
(* The returns of process_all_screenshots and the log file.                *)
(***************************************************************************)
\* the last n entries of a sequence
LastEntries(entries, n) == SubSeq(entries, Len(entries) - n + 1, Len(entries))

C24_EveryReturnSavesLog ==
  fpc = "returned" =>
    /\ log_file # <<>>
    /\ log_file[Len(log_file)] = session_log

====
